---------------------------- MODULE Spec2Model ----------------------------
(***************************************************************************)
(* Genome representation and mutation engine of emergents: an implicit     *)
(* treap of typed segments (genome/node.py, genome/segments.py), the       *)
(* coordinate validator (genome/coordinates.py), the Genome operations     *)
(* (genome/genome.py) and the six mutation operators (mutations/*.py).     *)
(*                                                                         *)
(* Python objects are modelled by value.  A Segment is a record carrying   *)
(* its identity `sid`; a Node is a record with its two subtrees nested     *)
(* inside it; None is the record None.  A raised exception is modelled by  *)
(* the field `raised` of an operation's result ("none" when it returns).   *)
(***************************************************************************)
EXTENDS Integers, Sequences, FiniteSets, TLC

(***************************************************************************)
(* Bounds of the model.                                                    *)
(***************************************************************************)
MaxInitSegs == 3      \* segments in the list a Genome is constructed from
MaxSegLen == 3        \* length of a segment of that list
MaxInitLen == 3       \* total length of that list
MaxPriority == 1      \* priorities are drawn from 0..MaxPriority
MaxArgLen == 2        \* length / delta argument of an operation
MaxOps == 1           \* operations performed on a genome after construction

(***************************************************************************)
(* genome/segments.py                                                      *)
(***************************************************************************)
FORWARD == "FORWARD"
REVERSE == "REVERSE"
NoDirection == "NONE"     \* a NonCodingSegment has no promoter_direction

None == [none |-> TRUE]

\* what a raise leaves in place of the value an expression would have had
Raised(exc) == [raised |-> exc]

\* a faulty switch, which turns every direction to REVERSE
switch_to_reverse(direction) == REVERSE

switch(direction) == IF direction = REVERSE THEN FORWARD ELSE REVERSE

\* a faulty NonCodingSegment, without the check of __post_init__
NonCodingSegment_unchecked(length, sid) ==
    [cls |-> "NonCodingSegment", length |-> length, sid |-> sid,
     promoter_direction |-> NoDirection]

\* Segment.__post_init__ behind NonCodingSegment(length=..): a fresh uuid4 sid
NonCodingSegment(length, sid) ==
    IF length <= 0 THEN Raised("ValueError")
    ELSE [cls |-> "NonCodingSegment", length |-> length, sid |-> sid,
          promoter_direction |-> NoDirection]

CodingSegment(length, sid, promoter_direction) ==
    IF length <= 0 THEN Raised("ValueError")
    ELSE [cls |-> "CodingSegment", length |-> length, sid |-> sid,
          promoter_direction |-> promoter_direction]

IsSegment(s) == DOMAIN s = {"cls", "length", "sid", "promoter_direction"}

is_noncoding(segment) == segment.cls = "NonCodingSegment"

\* a faulty clone_with_length, which keeps the length of the segment it clones
clone_with_length_same(segment, new_length, sid) ==
    IF new_length <= 0 THEN Raised("ValueError")
    ELSE [segment EXCEPT !.sid = sid]

\* NonCodingSegment.clone_with_length / CodingSegment.clone_with_length
clone_with_length(segment, new_length, sid) ==
    IF new_length <= 0 THEN Raised("ValueError")
    ELSE IF is_noncoding(segment)
         THEN NonCodingSegment(new_length, sid)
         ELSE CodingSegment(new_length, sid, segment.promoter_direction)

(***************************************************************************)
(* genome/node.py                                                          *)
(***************************************************************************)
Node(segment, priority) ==
    [segment |-> segment, priority |-> priority, left |-> None, right |-> None,
     sub_len |-> segment.length]

SubLenOf(node) == IF node = None THEN 0 ELSE node.sub_len

\* a faulty update_subtree_len, which keeps the cached sub_len
update_subtree_len_stale(node) == node

update_subtree_len(node) ==
    IF node = None THEN None
    ELSE [node EXCEPT !.sub_len =
              node.segment.length + SubLenOf(node.left) + SubLenOf(node.right)]

RECURSIVE merge(_, _)
merge(node_a, node_b) ==
    IF node_a = None THEN node_b
    ELSE IF node_b = None THEN node_a
    ELSE IF node_a.priority < node_b.priority
         THEN update_subtree_len([node_a EXCEPT !.right = merge(node_a.right, node_b)])
         ELSE update_subtree_len([node_b EXCEPT !.left = merge(node_a, node_b.left)])

SplitResult(left, right) == [raised |-> "none", left |-> left, right |-> right]

\* `fresh` gives the two nodes a cut inside a segment creates their
\* priorities (prio_l, prio_r) and their segments' identities (sid_l, sid_r).
RECURSIVE split_by_pos(_, _, _)
split_by_pos(root, pos, fresh) ==
    IF root = None THEN SplitResult(None, None)
    ELSE IF pos < 0 \/ pos > root.sub_len THEN Raised("IndexError")
    ELSE
      LET left_sub == SubLenOf(root.left)
          seg_len == root.segment.length
      IN  IF pos < left_sub
          THEN LET r == split_by_pos(root.left, pos, fresh)
               IN  IF r.raised # "none" THEN r
                   ELSE SplitResult(r.left,
                                    update_subtree_len([root EXCEPT !.left = r.right]))
          ELSE IF pos > left_sub + seg_len
          THEN LET r == split_by_pos(root.right, pos - left_sub - seg_len, fresh)
               IN  IF r.raised # "none" THEN r
                   ELSE SplitResult(update_subtree_len([root EXCEPT !.right = r.left]),
                                    r.right)
          ELSE
            LET offset == pos - left_sub
            IN  IF offset = 0
                THEN SplitResult(root.left,
                                 update_subtree_len([root EXCEPT !.left = None]))
                ELSE IF offset = seg_len
                THEN SplitResult(update_subtree_len([root EXCEPT !.right = None]),
                                 root.right)
                ELSE
                  LET left_seg == clone_with_length(root.segment, offset, fresh.sid_l)
                      right_seg == clone_with_length(root.segment, seg_len - offset,
                                                     fresh.sid_r)
                      left_node == Node(left_seg, fresh.prio_l)
                      right_node == Node(right_seg, fresh.prio_r)
                  IN  SplitResult(merge(root.left, left_node),
                                  merge(right_node, root.right))

(***************************************************************************)
(* Reading a tree.                                                         *)
(***************************************************************************)
\* Genome.to_list: the segments in order
RECURSIVE to_list(_)
to_list(node) ==
    IF node = None THEN <<>>
    ELSE to_list(node.left) \o <<node.segment>> \o to_list(node.right)


\* Genome.iter_segments: (segment, start, end) in order, end inclusive
RECURSIVE iter_recur(_, _)
iter_recur(node, acc) ==
    IF node = None THEN <<>>
    ELSE LET left_len == SubLenOf(node.left)
             seg_start == acc + left_len
             seg_end == seg_start + node.segment.length - 1
         IN  iter_recur(node.left, acc)
             \o <<[segment |-> node.segment, start |-> seg_start, end |-> seg_end]>>
             \o iter_recur(node.right, seg_end + 1)

iter_segments(groot) == iter_recur(groot, 0)

(***************************************************************************)
(* genome/coordinates.py                                                   *)
(***************************************************************************)
BASE == "base"
GAP == "gap"

\* DefaultCoordinateValidator.validate_position: the exception raised, or "none"
validate_position(pos, genome_length, coord_sys) ==
    IF coord_sys = BASE
    THEN IF pos < 0 \/ pos >= genome_length THEN "IndexError" ELSE "none"
    ELSE IF coord_sys = GAP
    THEN IF pos < 0 \/ pos > genome_length THEN "IndexError" ELSE "none"
    ELSE "ValueError"

\* DefaultCoordinateValidator.validate_base_range
validate_base_range(start, end, genome_length) ==
    IF start < 0 \/ end > genome_length THEN "IndexError"
    ELSE IF start >= end THEN "ValueError"
    ELSE "none"

(***************************************************************************)
(* genome/genome.py.  `groot` is Genome.root; an operation that rewrites   *)
(* the genome returns [raised, root].                                      *)
(***************************************************************************)
\* Genome.length
GenomeLength(groot) == IF groot = None THEN 0 ELSE groot.sub_len

Found(segment, offset, seg_start, seg_end) ==
    [raised |-> "none", segment |-> segment, offset |-> offset,
     seg_start |-> seg_start, seg_end |-> seg_end]

RECURSIVE rightmost_node(_)
rightmost_node(node) == IF node.right = None THEN node ELSE rightmost_node(node.right)

\* a faulty walk, which takes the root of the right part for its leftmost node
leftmost_node_top(node) == node

RECURSIVE leftmost_node(_)
leftmost_node(node) == IF node.left = None THEN node ELSE leftmost_node(node.left)

\* a faulty _handle_if_last_position, whose seg_start is the genome's end
handle_if_last_position_at_end(groot) ==
    IF groot = None THEN Raised("IndexError")
    ELSE LET current_node == rightmost_node(groot)
         IN  Found(current_node.segment, current_node.segment.length,
                   GenomeLength(groot), GenomeLength(groot))

\* Genome._handle_if_last_position
handle_if_last_position(groot) ==
    IF groot = None THEN Raised("IndexError")
    ELSE LET current_node == rightmost_node(groot)
         IN  Found(current_node.segment, current_node.segment.length,
                   GenomeLength(groot) - current_node.segment.length,
                   GenomeLength(groot))

\* a faulty descent, which forgets the bases it leaves on its left when it
\* goes right
RECURSIVE find_descend_noprefix(_, _, _)
find_descend_noprefix(current_node, prefix, pos) ==
    IF current_node = None THEN Raised("IndexError")
    ELSE LET left_len == SubLenOf(current_node.left)
         IN  IF pos < prefix + left_len
             THEN find_descend_noprefix(current_node.left, prefix, pos)
             ELSE IF pos >= prefix + left_len + current_node.segment.length
             THEN find_descend_noprefix(current_node.right, prefix,
                                        pos - left_len - current_node.segment.length)
             ELSE Found(current_node.segment, pos - (prefix + left_len),
                        prefix + left_len,
                        prefix + left_len + current_node.segment.length)

\* the descent loop of Genome.find_segment_at_position
RECURSIVE find_descend(_, _, _)
find_descend(current_node, prefix, pos) ==
    IF current_node = None THEN Raised("IndexError")
    ELSE LET left_len == SubLenOf(current_node.left)
         IN  IF pos < prefix + left_len
             THEN find_descend(current_node.left, prefix, pos)
             ELSE IF pos >= prefix + left_len + current_node.segment.length
             THEN find_descend(current_node.right,
                               prefix + left_len + current_node.segment.length, pos)
             ELSE Found(current_node.segment, pos - (prefix + left_len),
                        prefix + left_len,
                        prefix + left_len + current_node.segment.length)

find_segment_at_position(groot, pos, coord_sys) ==
    LET v == validate_position(pos, GenomeLength(groot), coord_sys)
    IN  IF v # "none" THEN Raised(v)
        ELSE IF pos = GenomeLength(groot) THEN handle_if_last_position(groot)
        ELSE find_descend(groot, 0, pos)

\* how a call that rewrites the genome ends: it returns, leaving new_root, or it
\* raises exc, leaving the genome as left_root
Done(new_root) == [raised |-> "none", root |-> new_root]
Failed(exc, left_root) == [raised |-> exc, root |-> left_root]

\* The node object `root` after split_by_pos(root, pos) has run on it in place:
\* where the split does not cut root's own segment the object is the root of one
\* of the two returned trees; where it does, the object is out of both trees and
\* only merge() has touched its children.
root_after_split(root, pos, fresh) ==
    LET s == split_by_pos(root, pos, fresh)
        left_sub == SubLenOf(root.left)
        seg_len == root.segment.length
        offset == pos - left_sub
    IN  IF root = None \/ s.raised # "none" THEN root
        ELSE IF pos < left_sub THEN s.right
        ELSE IF pos > left_sub + seg_len THEN s.left
        ELSE IF offset = 0 THEN s.right
        ELSE IF offset = seg_len THEN s.left
        ELSE [root EXCEPT
                !.left = IF root.left # None /\ root.left.priority < fresh.prio_l
                         THEN s.left ELSE root.left,
                !.right = IF root.right # None /\ ~(fresh.prio_r < root.right.priority)
                          THEN s.right ELSE root.right]

\* The random draws of one operation: the priorities and identities of the
\* nodes and segments it may create.  Identities sid0, sid0 + 1, .. are unused.
\*   cut1, cut2: the two nodes made by the first / second split of the
\*               operation that cuts a segment, <<prio_l, prio_r>> each
\*   prio_mid:   the node that ends up holding the inserted or merged segment
FreshOf(cut1, cut2, prio_mid, sid0) ==
    [cut1 |-> [prio_l |-> cut1[1], prio_r |-> cut1[2],
               sid_l |-> sid0, sid_r |-> sid0 + 1],
     cut2 |-> [prio_l |-> cut2[1], prio_r |-> cut2[2],
               sid_l |-> sid0 + 2, sid_r |-> sid0 + 3],
     prio_mid |-> prio_mid,
     sid_a |-> sid0 + 4, sid_b |-> sid0 + 5]

\* Genome.insert_at_gap.  Of the up to three Node(..) built for `mid` only the
\* last one reaches the tree: prio_mid is its priority.
insert_at_gap(groot, pos, segment, fresh) ==
    IF ~is_noncoding(segment) THEN Failed("TypeError", groot)
    ELSE IF validate_position(pos, GenomeLength(groot), GAP) # "none"
    THEN Failed(validate_position(pos, GenomeLength(groot), GAP), groot)
    ELSE
      LET s == split_by_pos(groot, pos, fresh.cut1)
          mid0 == merge(None, Node(segment, fresh.prio_mid))
          rightmost == rightmost_node(s.left)
          join_l == s.left # None /\ rightmost.segment.cls = "NonCodingSegment"
          left1 == IF join_l
                   THEN split_by_pos(s.left, pos - rightmost.segment.length,
                                     fresh.cut2).left
                   ELSE s.left
          mid1 == IF join_l
                  THEN Node(clone_with_length(rightmost.segment,
                                rightmost.segment.length + segment.length,
                                fresh.sid_a),
                            fresh.prio_mid)
                  ELSE mid0
          leftmost == leftmost_node(s.right)
          join_r == s.right # None /\ leftmost.segment.cls = "NonCodingSegment"
          right1 == IF join_r
                    THEN split_by_pos(s.right, leftmost.segment.length,
                                      fresh.cut2).right
                    ELSE s.right
          mid2 == IF join_r
                  THEN Node(clone_with_length(leftmost.segment,
                                mid1.segment.length + leftmost.segment.length,
                                fresh.sid_b),
                            fresh.prio_mid)
                  ELSE mid1
      IN  IF s.raised # "none" THEN Failed(s.raised, groot)
          ELSE Done(merge(merge(left1, mid2), right1))

\* a faulty delete_span, whose second split is at end instead of end - start
delete_span_absolute(groot, start, end, fresh) ==
    LET s1 == split_by_pos(groot, start, fresh.cut1)
        s2 == split_by_pos(s1.right, end, fresh.cut2)
    IN  IF s1.raised # "none" THEN Failed(s1.raised, groot)
        ELSE IF s2.raised # "none"
        THEN Failed(s2.raised, root_after_split(groot, start, fresh.cut1))
        ELSE Done(merge(s1.left, s2.right))

\* the two splits and the merge that end Genome.delete_range
delete_span(groot, start, end, fresh) ==
    LET s1 == split_by_pos(groot, start, fresh.cut1)
        s2 == split_by_pos(s1.right, end - start, fresh.cut2)
    IN  IF s1.raised # "none" THEN Failed(s1.raised, groot)
        ELSE IF s2.raised # "none"
        THEN Failed(s2.raised, root_after_split(groot, start, fresh.cut1))
        ELSE Done(merge(s1.left, s2.right))

\* Genome.delete_range.  On a circular genome start > end first deletes
\* [start, length) by a recursive call, then [0, end).
delete_range(groot, is_circular, start, end, fresh) ==
    IF validate_position(start, GenomeLength(groot), BASE) # "none"
    THEN Failed(validate_position(start, GenomeLength(groot), BASE), groot)
    ELSE IF validate_position(end, GenomeLength(groot), GAP) # "none"
    THEN Failed(validate_position(end, GenomeLength(groot), GAP), groot)
    ELSE IF start = end THEN Done(groot)
    ELSE IF start > end
    THEN IF is_circular
         THEN LET first == delete_span(groot, start, GenomeLength(groot), fresh)
              IN  IF first.raised # "none" THEN first
                  ELSE delete_span(first.root, 0, end, fresh)
         ELSE Failed("ValueError", groot)
    ELSE delete_span(groot, start, end, fresh)

\* Genome.extend_segment_at
extend_segment_at(groot, pos, delta, fresh) ==
    IF delta < 0 THEN Failed("ValueError", groot)
    ELSE IF validate_position(pos, GenomeLength(groot), GAP) # "none"
    THEN Failed(validate_position(pos, GenomeLength(groot), GAP), groot)
    ELSE
      LET f == find_segment_at_position(groot, pos, GAP)
          s1 == split_by_pos(groot, f.seg_start, fresh.cut1)
          s2 == split_by_pos(s1.right, f.segment.length, fresh.cut2)
          mid == s2.left
          new_len == mid.segment.length + delta
          root_node == update_subtree_len(
              [mid EXCEPT !.segment = clone_with_length(mid.segment, new_len,
                                                        fresh.sid_a)])
      IN  IF f.raised # "none" THEN Failed(f.raised, groot)
          ELSE IF ~is_noncoding(f.segment) THEN Failed("TypeError", groot)
          ELSE IF s1.raised # "none" THEN Failed(s1.raised, groot)
          ELSE IF s2.raised # "none"
          THEN Failed(s2.raised, root_after_split(groot, f.seg_start, fresh.cut1))
          ELSE IF mid = None
          THEN Failed("RuntimeError", root_after_split(groot, f.seg_start, fresh.cut1))
          ELSE Done(merge(merge(s1.left, root_node), s2.right))

\* a faulty loop, which merges a segment only into the segment that precedes
\* it in the genome, not into a clone already made
RECURSIVE coalesce_merged_pairwise(_, _, _, _)
coalesce_merged_pairwise(segments_info, i, merged, sid0) ==
    IF i > Len(segments_info) THEN merged
    ELSE LET segment == segments_info[i].segment
             n == Len(merged)
         IN  IF n > 0 /\ merged[n].cls = "NonCodingSegment"
                      /\ segment.cls = "NonCodingSegment"
                      /\ merged[n] = segments_info[i - 1].segment
             THEN coalesce_merged_pairwise(segments_info, i + 1,
                      [merged EXCEPT ![n] = clone_with_length(merged[n],
                                                merged[n].length + segment.length,
                                                sid0 + i)],
                      sid0)
             ELSE coalesce_merged_pairwise(segments_info, i + 1,
                                           Append(merged, segment), sid0)

\* a faulty loop, whose clone takes the length of the last segment of a run
RECURSIVE coalesce_merged_unsummed(_, _, _, _)
coalesce_merged_unsummed(segments_info, i, merged, sid0) ==
    IF i > Len(segments_info) THEN merged
    ELSE LET segment == segments_info[i].segment
             n == Len(merged)
         IN  IF n > 0 /\ merged[n].cls = "NonCodingSegment"
                      /\ segment.cls = "NonCodingSegment"
             THEN coalesce_merged_unsummed(segments_info, i + 1,
                      [merged EXCEPT ![n] = clone_with_length(merged[n],
                                                segment.length, sid0 + i)],
                      sid0)
             ELSE coalesce_merged_unsummed(segments_info, i + 1,
                                           Append(merged, segment), sid0)

\* the loop of Genome.coalesce_all that builds `merged`; the clone made at
\* the i-th segment takes identity sid0 + i
RECURSIVE coalesce_merged(_, _, _, _)
coalesce_merged(segments_info, i, merged, sid0) ==
    IF i > Len(segments_info) THEN merged
    ELSE LET segment == segments_info[i].segment
             n == Len(merged)
         IN  IF n > 0 /\ merged[n].cls = "NonCodingSegment"
                      /\ segment.cls = "NonCodingSegment"
             THEN coalesce_merged(segments_info, i + 1,
                      [merged EXCEPT ![n] = clone_with_length(merged[n],
                                                merged[n].length + segment.length,
                                                sid0 + i)],
                      sid0)
             ELSE coalesce_merged(segments_info, i + 1, Append(merged, segment), sid0)

\* root = merge(root, Node(s)) for s in segments: the i-th node has priority prios[i]
RECURSIVE build_tree(_, _, _, _)
build_tree(acc, segments, i, prios) ==
    IF i > Len(segments) THEN acc
    ELSE build_tree(merge(acc, Node(segments[i], prios[i])), segments, i + 1, prios)

\* Genome.coalesce_all
coalesce_all(groot, prios, sid0) ==
    LET segments_info == iter_segments(groot)
    IN  IF Len(segments_info) = 0 THEN Done(None)
        ELSE Done(build_tree(None, coalesce_merged(segments_info, 1, <<>>, sid0),
                             1, prios))

\* Genome.__init__
GenomeInit(segments, prios) == build_tree(None, segments, 1, prios)

(***************************************************************************)
(* mutations/*.py.  A mutation is the record of its constructor's           *)
(* arguments; __init__ gives the exception it raises or "none"; is_neutral *)
(* gives [raised, value]; apply gives [raised, root].                      *)
(***************************************************************************)
Returned(v) == [raised |-> "none", value |-> v]

\* PointMutation
PointMutation_init(position) == IF position < 0 THEN "ValueError" ELSE "none"

PointMutation_is_neutral(groot, position) ==
    LET f == find_segment_at_position(groot, position, BASE)
    IN  IF f.raised # "none" THEN Raised(f.raised)
        ELSE Returned(is_noncoding(f.segment))

PointMutation_apply(groot, position) == Done(groot)

\* SmallInsertion
SmallInsertion_init(position, length) ==
    IF position < 0 THEN "ValueError"
    ELSE IF length <= 0 THEN "ValueError"
    ELSE "none"

\* a faulty is_neutral, without the case position == genome.length
SmallInsertion_is_neutral_no_end(groot, position, length) ==
    LET f == find_segment_at_position(groot, position, GAP)
    IN  IF f.raised # "none" THEN Raised(f.raised)
        ELSE Returned(is_noncoding(f.segment) \/ f.offset = 0)

SmallInsertion_is_neutral(groot, position, length) ==
    IF position = GenomeLength(groot) THEN Returned(TRUE)
    ELSE LET f == find_segment_at_position(groot, position, GAP)
         IN  IF f.raised # "none" THEN Raised(f.raised)
             ELSE Returned(is_noncoding(f.segment) \/ f.offset = 0)

SmallInsertion_apply(groot, position, length, fresh, sid) ==
    LET segment == NonCodingSegment(length, sid)
    IN  IF ~IsSegment(segment) THEN Failed(segment.raised, groot)
        ELSE insert_at_gap(groot, position, segment, fresh)

\* SmallDeletion
SmallDeletion_init(position, length) ==
    IF position < 0 THEN "ValueError"
    ELSE IF length <= 0 THEN "ValueError"
    ELSE "none"

\* a faulty _is_deleted_seg_neutral, which compares the types of the two
\* segments instead of their identities
is_deleted_seg_neutral_by_type(groot, start_pos, end_pos) ==
    LET segment_at_start == find_segment_at_position(groot, start_pos, BASE)
        segment_at_end == find_segment_at_position(groot, end_pos, GAP)
    IN  IF segment_at_start.raised # "none" THEN Raised(segment_at_start.raised)
        ELSE IF ~is_noncoding(segment_at_start.segment) THEN Returned(FALSE)
        ELSE IF segment_at_end.raised # "none" THEN Raised(segment_at_end.raised)
        ELSE Returned(is_noncoding(segment_at_end.segment))

\* Deletion._is_deleted_seg_neutral, and the body of SmallDeletion.is_neutral
\* with end_pos = position + length - 1
is_deleted_seg_neutral(groot, start_pos, end_pos) ==
    LET segment_at_start == find_segment_at_position(groot, start_pos, BASE)
        segment_at_end == find_segment_at_position(groot, end_pos, GAP)
    IN  IF segment_at_start.raised # "none" THEN Raised(segment_at_start.raised)
        ELSE IF ~is_noncoding(segment_at_start.segment) THEN Returned(FALSE)
        ELSE IF segment_at_end.raised # "none" THEN Raised(segment_at_end.raised)
        ELSE Returned(segment_at_start.segment.sid = segment_at_end.segment.sid)

SmallDeletion_is_neutral(groot, position, length) ==
    is_deleted_seg_neutral(groot, position, position + length - 1)

SmallDeletion_apply(groot, is_circular, position, length, fresh) ==
    delete_range(groot, is_circular, position, position + length, fresh)

\* a faulty _intervals_for_del, which forgets the part of a wrapped range that
\* follows the origin
intervals_for_first_only(groot, start_pos, end_pos) ==
    IF start_pos > end_pos
    THEN <<<<start_pos, GenomeLength(groot)>>>>
    ELSE <<<<start_pos, end_pos>>>>

\* Deletion._intervals_for_del and Duplication._intervals_for_dup (same body)
intervals_for(groot, start_pos, end_pos) ==
    IF start_pos > end_pos
    THEN <<<<start_pos, GenomeLength(groot)>>, <<0, end_pos>>>>
    ELSE IF start_pos <= end_pos
    THEN <<<<start_pos, end_pos>>>>
    ELSE Raised("ValueError")

\* Deletion
Deletion_is_neutral(groot, start_pos, end_pos) ==
    LET intervals == intervals_for(groot, start_pos, end_pos)
        first == is_deleted_seg_neutral(groot, intervals[1][1], intervals[1][2])
        second == is_deleted_seg_neutral(groot, intervals[2][1], intervals[2][2])
    IN  IF first.raised # "none" THEN first
        ELSE IF ~first.value THEN Returned(FALSE)
        ELSE IF Len(intervals) = 2
        THEN IF second.raised # "none" THEN second
             ELSE IF ~second.value THEN Returned(FALSE)
             ELSE Returned(TRUE)
        ELSE Returned(TRUE)

Deletion_apply(groot, is_circular, start_pos, end_pos, fresh) ==
    delete_range(groot, is_circular, start_pos, end_pos + 1, fresh)

\* Duplication
Duplication_get_length(groot, start_pos, end_pos) ==
    IF start_pos <= end_pos THEN end_pos - start_pos + 1
    ELSE GenomeLength(groot) - (start_pos - end_pos + 1)

Max(a, b) == IF a >= b THEN a ELSE b
Min(a, b) == IF a <= b THEN a ELSE b

\* Duplication._is_dupplicated_seg_neutral: the loop over iter_segments from
\* its i-th element
RECURSIVE is_dupplicated_seg_neutral(_, _, _, _)
is_dupplicated_seg_neutral(segments_info, i, start_pos, end_pos) ==
    IF i > Len(segments_info) THEN TRUE
    ELSE LET seg == segments_info[i].segment
             seg_start == segments_info[i].start
             seg_end == segments_info[i].end
             overlap_start == Max(seg_start, start_pos)
             overlap_end == Min(seg_end, end_pos)
             continue == is_dupplicated_seg_neutral(segments_info, i + 1,
                                                    start_pos, end_pos)
         IN  IF overlap_start >= overlap_end THEN continue
             ELSE IF seg.cls # "CodingSegment" THEN continue
             ELSE IF seg.promoter_direction = FORWARD
             THEN IF overlap_start = seg_start THEN FALSE ELSE continue
             ELSE IF overlap_end = seg_end THEN FALSE ELSE continue

\* a faulty is_neutral, without the exemption of insertion_pos == genome.length
Duplication_is_neutral_no_end(groot, start_pos, end_pos, insertion_pos) ==
    LET f == find_segment_at_position(groot, insertion_pos, GAP)
        intervals == intervals_for(groot, start_pos, end_pos)
        info == iter_segments(groot)
    IN  IF f.raised # "none" THEN Raised(f.raised)
        ELSE IF ~is_noncoding(f.segment) /\ f.offset # 0
        THEN Returned(FALSE)
        ELSE IF ~is_dupplicated_seg_neutral(info, 1, intervals[1][1], intervals[1][2])
        THEN Returned(FALSE)
        ELSE IF Len(intervals) = 2
        THEN Returned(is_dupplicated_seg_neutral(info, 1, intervals[2][1],
                                                 intervals[2][2]))
        ELSE Returned(TRUE)

Duplication_is_neutral(groot, start_pos, end_pos, insertion_pos) ==
    LET f == find_segment_at_position(groot, insertion_pos, GAP)
        intervals == intervals_for(groot, start_pos, end_pos)
        info == iter_segments(groot)
    IN  IF f.raised # "none" THEN Raised(f.raised)
        ELSE IF ~is_noncoding(f.segment) /\ f.offset # 0
                /\ insertion_pos # GenomeLength(groot)
        THEN Returned(FALSE)
        ELSE IF ~is_dupplicated_seg_neutral(info, 1, intervals[1][1], intervals[1][2])
        THEN Returned(FALSE)
        ELSE IF Len(intervals) = 2
        THEN Returned(is_dupplicated_seg_neutral(info, 1, intervals[2][1],
                                                 intervals[2][2]))
        ELSE Returned(TRUE)

Duplication_apply(groot, start_pos, end_pos, insertion_pos, fresh, sid) ==
    LET segment == NonCodingSegment(Duplication_get_length(groot, start_pos, end_pos),
                                    sid)
    IN  IF ~IsSegment(segment) THEN Failed(segment.raised, groot)
        ELSE insert_at_gap(groot, insertion_pos, segment, fresh)

\* Inversion.__init__: the exception raised, or the ordered coordinates
Inversion_init(start_pos, end_pos) ==
    IF start_pos < 0 \/ end_pos < 0 THEN Raised("ValueError")
    ELSE IF start_pos = end_pos THEN Raised("ValueError")
    ELSE IF start_pos > end_pos
    THEN [raised |-> "none", start_pos |-> end_pos, end_pos |-> start_pos,
          reverted |-> TRUE]
    ELSE [raised |-> "none", start_pos |-> start_pos, end_pos |-> end_pos,
          reverted |-> FALSE]

\* a faulty is_neutral, which looks at the first cut point only
Inversion_is_neutral_start_only(groot, start_pos, end_pos) ==
    LET at_start == find_segment_at_position(groot, start_pos, GAP)
        at_end == find_segment_at_position(groot, end_pos, GAP)
    IN  IF at_start.raised # "none" THEN Raised(at_start.raised)
        ELSE IF ~is_noncoding(at_start.segment) /\ at_start.offset # 0
        THEN Returned(FALSE)
        ELSE IF at_end.raised # "none" THEN Raised(at_end.raised)
        ELSE Returned(TRUE)

\* a faulty is_neutral, without the exemption of end_pos == genome.length
Inversion_is_neutral_no_end(groot, start_pos, end_pos) ==
    LET at_start == find_segment_at_position(groot, start_pos, GAP)
        at_end == find_segment_at_position(groot, end_pos, GAP)
    IN  IF at_start.raised # "none" THEN Raised(at_start.raised)
        ELSE IF ~is_noncoding(at_start.segment) /\ at_start.offset # 0
        THEN Returned(FALSE)
        ELSE IF at_end.raised # "none" THEN Raised(at_end.raised)
        ELSE Returned(~(~is_noncoding(at_end.segment) /\ at_end.offset # 0))

Inversion_is_neutral(groot, start_pos, end_pos) ==
    LET at_start == find_segment_at_position(groot, start_pos, GAP)
        at_end == find_segment_at_position(groot, end_pos, GAP)
    IN  IF at_start.raised # "none" THEN Raised(at_start.raised)
        ELSE IF ~is_noncoding(at_start.segment) /\ at_start.offset # 0
        THEN Returned(FALSE)
        ELSE IF at_end.raised # "none" THEN Raised(at_end.raised)
        ELSE Returned(~(~is_noncoding(at_end.segment) /\ at_end.offset # 0
                        /\ end_pos # GenomeLength(groot)))

\* a faulty reversal, which leaves every promoter_direction as it was
inverted_unswitched(segments) ==
    [i \in 1..Len(segments) |-> segments[Len(segments) + 1 - i]]

\* reversed(segments) with every CodingSegment's promoter_direction switched
inverted(segments) ==
    [i \in 1..Len(segments) |->
        LET seg == segments[Len(segments) + 1 - i]
        IN  IF seg.cls = "CodingSegment"
            THEN [seg EXCEPT !.promoter_direction = switch(seg.promoter_direction)]
            ELSE seg]

\* Inversion.apply.  prios[i] is the priority of the node built for the i-th
\* piece of the inverted range (the merged node where that piece is merged into
\* a flank); the merged segments take identities fresh.sid_a and fresh.sid_b.
Inversion_apply(groot, start_pos, end_pos, fresh, prios) ==
    LET s1 == split_by_pos(groot, start_pos, fresh.cut1)
        s2 == split_by_pos(s1.right, end_pos - start_pos, fresh.cut2)
        right0 == s2.right
        inverted_segments == inverted(to_list(s2.left))
        m == Len(inverted_segments)
        rightmost == rightmost_node(s1.left)
        join_l == /\ s1.left # None /\ m > 0
                  /\ is_noncoding(rightmost.segment)
                  /\ is_noncoding(inverted_segments[1])
        left1 == IF join_l
                 THEN merge(split_by_pos(s1.left,
                                         start_pos - rightmost.segment.length,
                                         fresh.cut1).left,
                            Node(clone_with_length(rightmost.segment,
                                     rightmost.segment.length
                                       + inverted_segments[1].length,
                                     fresh.sid_a),
                                 prios[1]))
                 ELSE s1.left
        lo == IF join_l THEN 2 ELSE 1      \* inverted_segments[lo..hi] remain
        leftmost == leftmost_node(right0)
        join_r == /\ right0 # None /\ lo <= m
                  /\ is_noncoding(leftmost.segment)
                  /\ is_noncoding(inverted_segments[m])
        right1 == IF join_r
                  THEN merge(Node(clone_with_length(leftmost.segment,
                                      inverted_segments[m].length
                                        + leftmost.segment.length,
                                      fresh.sid_b),
                                  prios[m]),
                             split_by_pos(right0, leftmost.segment.length,
                                          fresh.cut2).right)
                  ELSE right0
        hi == IF join_r THEN m - 1 ELSE m
        new_mid == build_tree(None,
                              [i \in 1..(hi - lo + 1) |-> inverted_segments[lo + i - 1]],
                              1,
                              [i \in 1..(hi - lo + 1) |-> prios[lo + i - 1]])
        root1 == IF left1 # None THEN merge(left1, new_mid) ELSE new_mid
        root2 == IF right1 # None THEN merge(root1, right1) ELSE root1
    IN  IF s1.raised # "none" THEN Failed(s1.raised, groot)
        ELSE IF s2.raised # "none"
        THEN Failed(s2.raised, root_after_split(groot, start_pos, fresh.cut1))
        ELSE Done(update_subtree_len(root2))

(***************************************************************************)
(* The state: one Genome and the record of the last call made on it.       *)
(***************************************************************************)
VARIABLES
    root,        \* Genome.root
    circular,    \* Genome.circular
    next_sid,    \* the identities next_sid, next_sid + 1, .. are unused
    ops,         \* calls made since construction
    pre,         \* Genome.root before the last call
    last,        \* the last call: its name, arguments and outcome
    other,       \* a second Genome, on which nothing is called
    manager      \* MutationManager.apply_mutations_to_genome: its position,
                 \* its local variables and the calls it has made

vars == <<root, circular, next_sid, ops, pre, last, other, manager>>

Priority == 0..MaxPriority
Lengths == 1..MaxSegLen

NoArg == "absent"   \* an argument the call does not take
\* op(a, b, c): `init` is what the mutation's constructor raised, `neutral` what
\* is_neutral returned or raised on the genome before apply, `raised` what the
\* operation (a mutation's apply) raised; "none" for no exception, "n/a" where
\* the step does not exist or was not reached
\* `sys` is the coordinate system a query was given and `ret` what it returned
CallRet(op, a, b, c, sys, init, neutral, raised, ret) ==
    [op |-> op, a |-> a, b |-> b, c |-> c, sys |-> sys, init |-> init,
     neutral |-> neutral, raised |-> raised, ret |-> ret]

Call(op, a, b, c, init, neutral, raised) ==
    CallRet(op, a, b, c, "n/a", init, neutral, raised, "n/a")

RECURSIVE SumLen(_)
SumLen(segments) ==
    IF segments = <<>> THEN 0 ELSE Head(segments).length + SumLen(Tail(segments))

\* the shapes a segment of a constructed genome may have
SegmentShapes ==
    {[cls |-> "NonCodingSegment", promoter_direction |-> NoDirection],
     [cls |-> "CodingSegment", promoter_direction |-> FORWARD],
     [cls |-> "CodingSegment", promoter_direction |-> REVERSE]}

MakeSegment(shape, length, sid) ==
    IF shape.cls = "NonCodingSegment" THEN NonCodingSegment(length, sid)
    ELSE CodingSegment(length, sid, shape.promoter_direction)

\* the segment lists a Genome is constructed from: the i-th has identity i
InitSegmentLists ==
    UNION {
      {[i \in 1..n |-> MakeSegment(shapes[i], lens[i], i)] :
          shapes \in [1..n -> SegmentShapes],
          lens \in {l \in [1..n -> Lengths] :
                      SumLen([i \in 1..n |-> [length |-> l[i]]]) <= MaxInitLen}}
      : n \in 0..MaxInitSegs }

\* apply_mutations_to_genome has not been called
NotCalled ==
    [pc |-> "not called", empty_at_entry |-> FALSE, num_mutations |-> 0,
     iterations |-> 0, neutral_count |-> 0, non_neutral_count |-> 0,
     survived |-> "n/a", calls |-> <<>>]

\* The second Genome is kept as what it was constructed from (`given`: the
\* variant, orientation and length of its segments) and what to_list() of it
\* yields now (`segments`).  Python holds segments by reference: `shared` tells
\* that the Segment object is the very one the first Genome was given, so that
\* an assignment to a field of that object is read through both genomes.
NoOther == [given |-> <<>>, segments |-> <<>>]

\* how the second Genome is made: from the same list of Segment objects
\* (Genome.__init__ wraps each given object in a Node), from a separate list of
\* equal segments, or by copy.deepcopy (Population.initialize_population)
Makings == {"same segments", "separate segments", "deepcopy"}

SecondGenome(segments, making) ==
    [given |->
        [i \in 1..Len(segments) |->
            [cls |-> segments[i].cls,
             promoter_direction |-> segments[i].promoter_direction,
             length |-> segments[i].length]],
     segments |->
        [i \in 1..Len(segments) |->
            [segment |-> IF making = "separate segments"
                         THEN [segments[i] EXCEPT !.sid = 0 - i]
                         ELSE segments[i],
             shared |-> making = "same segments"]]]

\* the second Genome as it reads once the first one has root new_root: a
\* shared Segment object has the fields it has in the first Genome
OtherSeen(new_root) ==
    LET now == to_list(new_root)
    IN  [other EXCEPT !.segments =
            [i \in 1..Len(other.segments) |->
                LET e == other.segments[i]
                    held == {k \in 1..Len(now) : now[k].sid = e.segment.sid}
                IN  IF e.shared /\ held # {}
                    THEN [e EXCEPT !.segment = now[CHOOSE k \in held : TRUE]]
                    ELSE e]]

\* Genome(segments, circular)
Init ==
    \E segments \in InitSegmentLists, c \in BOOLEAN :
      \E prios \in [1..Len(segments) -> Priority] :
        /\ root = GenomeInit(segments, prios)
        /\ circular = c
        /\ next_sid = Len(segments) + 1
        /\ ops = 0
        /\ pre = None
        /\ last = Call("Genome", NoArg, NoArg, NoArg, "n/a", "n/a", "none")
        /\ other = NoOther
        /\ manager = NotCalled

\* positions an argument is drawn from: every valid one and one beyond each end
Positions == -1..(GenomeLength(root) + 1)

\* pos cuts a segment of the tree strictly inside
CutsInside(groot, pos) ==
    /\ 0 < pos /\ pos < GenomeLength(groot)
    /\ find_descend(groot, 0, pos).offset # 0

\* the priorities drawn by a split at pos: two if it builds two nodes
CutPriorities(groot, pos) ==
    IF CutsInside(groot, pos) THEN Priority \X Priority ELSE {<<0, 0>>}

\* base positions an argument is drawn from: length is the one beyond the end
BasePositions == -1..GenomeLength(root)

\* the outcome of a call on the genome
Outcome(op, a, b, c, result, sids_used) ==
    /\ root' = result.root
    /\ pre' = root
    /\ last' = Call(op, a, b, c, "n/a", "n/a", result.raised)
    /\ next_sid' = next_sid + sids_used
    /\ ops' = ops + 1
    /\ other' = OtherSeen(root')
    /\ UNCHANGED <<circular, manager>>

NeutralOutcome(neutral) ==
    IF neutral.raised # "none" THEN neutral.raised
    ELSE IF neutral.value THEN "True" ELSE "False"

\* the outcome of constructing a mutation, asking is_neutral(genome) and calling
\* apply(genome) on it; a mutation whose constructor raises does not exist
MutationOutcome(op, a, b, c, init, neutral, result, sids_used) ==
    /\ root' = IF init # "none" THEN root ELSE result.root
    /\ pre' = root
    /\ last' = IF init # "none" THEN Call(op, a, b, c, init, "n/a", "n/a")
               ELSE Call(op, a, b, c, "none", NeutralOutcome(neutral), result.raised)
    /\ next_sid' = next_sid + sids_used
    /\ ops' = ops + 1
    /\ other' = OtherSeen(root')
    /\ UNCHANGED <<circular, manager>>

\* split_by_pos(genome.root, pos) followed by merge(left, right) of its result
SplitThenMerge ==
    /\ ops < MaxOps
    /\ \E pos \in Positions :
       \E cut1 \in CutPriorities(root, pos) :
         LET s == split_by_pos(root, pos, FreshOf(cut1, <<0, 0>>, 0, next_sid).cut1)
         IN  /\ root' = IF s.raised # "none" THEN root ELSE merge(s.left, s.right)
             /\ pre' = root
             /\ last' = CallRet("split_by_pos", pos, NoArg, NoArg, "n/a", "n/a",
                                "n/a", s.raised, s)
             /\ next_sid' = next_sid + 2
             /\ ops' = ops + 1
             /\ other' = OtherSeen(root')
             /\ UNCHANGED <<circular, manager>>

\* genome.find_segment_at_position(pos, coord_sys)
FindSegmentAtPosition ==
    /\ ops < MaxOps
    /\ \E pos \in Positions, coord_sys \in {BASE, GAP, "other"} :
         LET f == find_segment_at_position(root, pos, coord_sys)
         IN  /\ last' = CallRet("find_segment_at_position", pos, NoArg, NoArg,
                                coord_sys, "n/a", "n/a", f.raised, f)
             /\ pre' = root
             /\ ops' = ops + 1
             /\ UNCHANGED <<root, circular, next_sid, other, manager>>

\* genome.insert_at_gap(pos, NonCodingSegment(n)), or with a CodingSegment (c = 1)
InsertAtGap ==
    /\ ops < MaxOps
    /\ \E pos \in Positions, n \in 1..MaxArgLen, coding \in {0, 1} :
      \E cut1 \in CutPriorities(root, pos), prio_mid \in Priority :
        LET segment == IF coding = 1 THEN CodingSegment(n, next_sid, FORWARD)
                       ELSE NonCodingSegment(n, next_sid)
            fresh == FreshOf(cut1, <<0, 0>>, prio_mid, next_sid + 1)
        IN  /\ coding = 1 => prio_mid = 0 /\ cut1 = <<0, 0>>
            /\ Outcome("insert_at_gap", pos, n, coding,
                       insert_at_gap(root, pos, segment, fresh), 7)

\* genome.delete_range(start, end)
DeleteRange ==
    /\ ops < MaxOps
    /\ \E start \in Positions, end \in Positions :
      \E cut1 \in CutPriorities(root, start), cut2 \in CutPriorities(root, end) :
           Outcome("delete_range", start, end, NoArg,
                   delete_range(root, circular, start, end,
                                FreshOf(cut1, cut2, 0, next_sid)), 6)

\* genome.extend_segment_at(pos, delta)
ExtendSegmentAt ==
    /\ ops < MaxOps
    /\ \E pos \in Positions, delta \in -1..MaxArgLen :
         Outcome("extend_segment_at", pos, delta, NoArg,
                 extend_segment_at(root, pos, delta,
                                   FreshOf(<<0, 0>>, <<0, 0>>, 0, next_sid)), 6)

\* genome.coalesce_all()
CoalesceAll ==
    /\ ops < MaxOps
    /\ \E prios \in [1..Len(to_list(root)) -> Priority] :
         Outcome("coalesce_all", NoArg, NoArg, NoArg,
                 coalesce_all(root, prios, next_sid), Len(to_list(root)) + 1)

\* PointMutation(position): is_neutral, apply
PointMutationStep ==
    /\ ops < MaxOps
    /\ \E position \in BasePositions :
         MutationOutcome("PointMutation", position, NoArg, NoArg,
                         PointMutation_init(position),
                         PointMutation_is_neutral(root, position),
                         PointMutation_apply(root, position), 0)

\* SmallInsertion(position, length): is_neutral, apply
SmallInsertionStep ==
    /\ ops < MaxOps
    /\ \E position \in Positions, length \in 0..MaxArgLen :
       \E cut1 \in CutPriorities(root, position), prio_mid \in Priority :
         MutationOutcome("SmallInsertion", position, length, NoArg,
                         SmallInsertion_init(position, length),
                         SmallInsertion_is_neutral(root, position, length),
                         SmallInsertion_apply(root, position, length,
                             FreshOf(cut1, <<0, 0>>, prio_mid, next_sid + 1),
                             next_sid),
                         7)

\* SmallDeletion(position, length): is_neutral, apply
SmallDeletionStep ==
    /\ ops < MaxOps
    /\ \E position \in BasePositions, length \in 0..MaxArgLen :
       \E cut1 \in CutPriorities(root, position),
          cut2 \in CutPriorities(root, position + length) :
         MutationOutcome("SmallDeletion", position, length, NoArg,
                         SmallDeletion_init(position, length),
                         SmallDeletion_is_neutral(root, position, length),
                         SmallDeletion_apply(root, circular, position, length,
                             FreshOf(cut1, cut2, 0, next_sid)),
                         6)

\* Deletion(start_pos, end_pos): is_neutral, apply
DeletionStep ==
    /\ ops < MaxOps
    /\ \E start_pos \in BasePositions, end_pos \in BasePositions :
       \E cut1 \in CutPriorities(root, start_pos),
          cut2 \in CutPriorities(root, end_pos + 1) :
         MutationOutcome("Deletion", start_pos, end_pos, NoArg, "none",
                         Deletion_is_neutral(root, start_pos, end_pos),
                         Deletion_apply(root, circular, start_pos, end_pos,
                             FreshOf(cut1, cut2, 0, next_sid)),
                         6)

\* Duplication(start_pos, end_pos, insertion_pos): is_neutral, apply
DuplicationStep ==
    /\ ops < MaxOps
    /\ \E start_pos \in BasePositions, end_pos \in BasePositions,
          insertion_pos \in Positions :
       \E cut1 \in CutPriorities(root, insertion_pos), prio_mid \in Priority :
         MutationOutcome("Duplication", start_pos, end_pos, insertion_pos, "none",
                         Duplication_is_neutral(root, start_pos, end_pos,
                                                insertion_pos),
                         Duplication_apply(root, start_pos, end_pos, insertion_pos,
                             FreshOf(cut1, <<0, 0>>, prio_mid, next_sid + 1),
                             next_sid),
                         7)

\* the number of segments that Inversion.apply finds between its two cuts
InvertedCount(groot, start_pos, end_pos) ==
    LET s1 == split_by_pos(groot, start_pos, [prio_l |-> 0, prio_r |-> 0,
                                              sid_l |-> 0, sid_r |-> 0])
        s2 == split_by_pos(s1.right, end_pos - start_pos,
                           [prio_l |-> 0, prio_r |-> 0, sid_l |-> 0, sid_r |-> 0])
    IN  IF s1.raised # "none" THEN 0
        ELSE IF s2.raised # "none" THEN 0
        ELSE Len(to_list(s2.left))

\* Inversion(start_pos, end_pos): is_neutral, apply
InversionStep ==
    /\ ops < MaxOps
    /\ \E a \in Positions, b \in Positions :
       LET m == Inversion_init(a, b)
       IN  IF m.raised # "none"
           THEN MutationOutcome("Inversion", a, b, NoArg, m.raised,
                                Returned(FALSE), Done(root), 0)
           ELSE \E cut1 \in CutPriorities(root, m.start_pos),
                   cut2 \in CutPriorities(root, m.end_pos) :
                \E prios \in [1..InvertedCount(root, m.start_pos, m.end_pos)
                                -> Priority] :
                  MutationOutcome("Inversion", a, b, NoArg, "none",
                      Inversion_is_neutral(root, m.start_pos, m.end_pos),
                      Inversion_apply(root, m.start_pos, m.end_pos,
                                      FreshOf(cut1, cut2, 0, next_sid), prios),
                      6)

Next ==
    \/ SplitThenMerge
    \/ FindSegmentAtPosition
    \/ InsertAtGap
    \/ DeleteRange
    \/ ExtendSegmentAt
    \/ CoalesceAll
    \/ PointMutationStep
    \/ SmallInsertionStep
    \/ SmallDeletionStep
    \/ DeletionStep
    \/ DuplicationStep
    \/ InversionStep

Spec == Init /\ [][Next]_vars

\* the operations of Genome and of its tree, without the mutations
GenomeNext ==
    \/ SplitThenMerge
    \/ FindSegmentAtPosition
    \/ InsertAtGap
    \/ DeleteRange
    \/ ExtendSegmentAt
    \/ CoalesceAll

GenomeSpec == Init /\ [][GenomeNext]_vars

\* SmallInsertion alone
SmallInsertionSpec == Init /\ [][SmallInsertionStep]_vars

\* SmallDeletion alone
SmallDeletionSpec == Init /\ [][SmallDeletionStep]_vars

\* Deletion(start_pos, end_pos): is_neutral(genome), genome.coalesce_all(),
\* is_neutral(genome) again
DeletionAcrossCoalesce ==
    /\ ops < MaxOps
    /\ \E start_pos \in BasePositions, end_pos \in BasePositions :
       \E prios \in [1..Len(to_list(root)) -> Priority] :
         LET coalesced == coalesce_all(root, prios, next_sid)
         IN  /\ root' = coalesced.root
             /\ pre' = root
             /\ last' = CallRet("Deletion.is_neutral, coalesce_all, Deletion.is_neutral",
                                start_pos, end_pos, NoArg, "n/a", "none",
                                NeutralOutcome(Deletion_is_neutral(root, start_pos,
                                                                   end_pos)),
                                coalesced.raised,
                                NeutralOutcome(Deletion_is_neutral(coalesced.root,
                                                                   start_pos, end_pos)))
             /\ next_sid' = next_sid + Len(to_list(root)) + 1
             /\ ops' = ops + 1
             /\ other' = OtherSeen(root')
             /\ UNCHANGED <<circular, manager>>

\* Deletion, alone and around a coalesce_all
DeletionNext ==
    \/ DeletionStep
    \/ DeletionAcrossCoalesce

DeletionSpec == Init /\ [][DeletionNext]_vars

\* Duplication alone
DuplicationSpec == Init /\ [][DuplicationStep]_vars

\* Inversion alone
InversionSpec == Init /\ [][InversionStep]_vars

\* what a segment is, whichever instance holds it
Shape(segment) ==
    [cls |-> segment.cls, promoter_direction |-> segment.promoter_direction,
     length |-> segment.length]

Shapes(segments) == [i \in 1..Len(segments) |-> Shape(segments[i])]

\* what the sequence is_neutral, apply, is_neutral, apply, coalesce_all of one
\* Inversion leaves: `neutral` is the first answer, `raised` the first
\* exception of the calls that follow it, and `ret` holds the second answer
\* and what genome.coalesce_all() makes of the genome the sequence started from
InversionTwiceOutcome(a, b, init, neutral, raised, again, result_root, sids) ==
    /\ root' = result_root
    /\ pre' = root
    /\ last' = CallRet("Inversion.apply, Inversion.apply, coalesce_all",
                       a, b, NoArg, "n/a", init, neutral, raised,
                       [neutral_again |-> again,
                        coalesced_before |->
                            Shapes(to_list(coalesce_all(root,
                                [i \in 1..Len(to_list(root)) |-> 0],
                                next_sid + sids).root))])
    /\ next_sid' = next_sid + sids
    /\ ops' = ops + 1
    /\ other' = OtherSeen(root')
    /\ UNCHANGED <<circular, manager>>

\* genome.coalesce_all() after the second apply
CoalesceAfterTwice(a, b, neutral_again, twice) ==
    IF twice.raised # "none"
    THEN InversionTwiceOutcome(a, b, "none", "True", twice.raised, neutral_again,
                               twice.root, 12)
    ELSE \E prios \in [1..Len(to_list(twice.root)) -> Priority] :
           InversionTwiceOutcome(a, b, "none", "True",
               coalesce_all(twice.root, prios, next_sid + 12).raised,
               neutral_again,
               coalesce_all(twice.root, prios, next_sid + 12).root,
               12 + Len(to_list(twice.root)) + 1)

\* is_neutral(genome) and apply(genome) of the same Inversion, on the genome
\* its first apply left
InversionAgain(a, b, start_pos, end_pos, once) ==
    IF once.raised # "none"
    THEN InversionTwiceOutcome(a, b, "none", "True", once.raised, "n/a",
                               once.root, 6)
    ELSE \E cut1 \in CutPriorities(once.root, start_pos),
            cut2 \in CutPriorities(once.root, end_pos) :
         \E prios \in [1..InvertedCount(once.root, start_pos, end_pos)
                         -> Priority] :
           CoalesceAfterTwice(a, b,
               NeutralOutcome(Inversion_is_neutral(once.root, start_pos, end_pos)),
               Inversion_apply(once.root, start_pos, end_pos,
                               FreshOf(cut1, cut2, 0, next_sid + 6), prios))

\* m = Inversion(a, b); if m.is_neutral(genome): m.apply(genome),
\* m.is_neutral(genome), m.apply(genome), genome.coalesce_all()
InversionTwiceThenCoalesce ==
    /\ ops < MaxOps
    /\ \E a \in Positions, b \in Positions :
       LET m == Inversion_init(a, b)
       IN  IF m.raised # "none"
           THEN InversionTwiceOutcome(a, b, m.raised, "n/a", "n/a", "n/a", root, 0)
           ELSE IF NeutralOutcome(Inversion_is_neutral(root, m.start_pos,
                                                       m.end_pos)) # "True"
           THEN InversionTwiceOutcome(a, b, "none",
                    NeutralOutcome(Inversion_is_neutral(root, m.start_pos,
                                                        m.end_pos)),
                    "n/a", "n/a", root, 0)
           ELSE \E cut1 \in CutPriorities(root, m.start_pos),
                   cut2 \in CutPriorities(root, m.end_pos) :
                \E prios \in [1..InvertedCount(root, m.start_pos, m.end_pos)
                                -> Priority] :
                  InversionAgain(a, b, m.start_pos, m.end_pos,
                      Inversion_apply(root, m.start_pos, m.end_pos,
                                      FreshOf(cut1, cut2, 0, next_sid), prios))

\* the genomes an Inversion is applied twice to: linear ones, Inversion reading
\* nothing of genome.circular
InversionTwiceInit ==
    \E segments \in InitSegmentLists :
      \E prios \in [1..Len(segments) -> Priority] :
        /\ root = GenomeInit(segments, prios)
        /\ circular = FALSE
        /\ next_sid = Len(segments) + 1
        /\ ops = 0
        /\ pre = None
        /\ last = Call("Genome", NoArg, NoArg, NoArg, "n/a", "n/a", "none")
        /\ other = NoOther
        /\ manager = NotCalled

\* an Inversion applied twice, then coalesce_all
InversionTwiceSpec == InversionTwiceInit /\ [][InversionTwiceThenCoalesce]_vars

\* Deletion and Duplication, the two mutations that take BASE coordinates
RangeMutationNext == DeletionStep \/ DuplicationStep

RangeMutationSpec == Init /\ [][RangeMutationNext]_vars

\* the six mutation operators, each on a freshly constructed genome
MutationNext ==
    \/ PointMutationStep
    \/ SmallInsertionStep
    \/ SmallDeletionStep
    \/ DeletionStep
    \/ DuplicationStep
    \/ InversionStep

MutationSpec == Init /\ [][MutationNext]_vars

\* two genomes: Genome(segments, circular) and a second Genome made from it
TwoGenomesInit ==
    \E segments \in InitSegmentLists, c \in BOOLEAN, making \in Makings :
      \E prios \in [1..Len(segments) -> Priority] :
        /\ root = GenomeInit(segments, prios)
        /\ circular = c
        /\ next_sid = Len(segments) + 1
        /\ ops = 0
        /\ pre = None
        /\ last = Call("Genome", NoArg, NoArg, NoArg, "n/a", "n/a", "none")
        /\ other = SecondGenome(segments, making)
        /\ manager = NotCalled

TwoGenomesSpec == TwoGenomesInit /\ [][Next]_vars

(***************************************************************************)
(* mutation_manager.py.  apply_mutations_to_genome(genome, mutation_rate)  *)
(* is entered, runs its loop one iteration at a step and returns.          *)
(***************************************************************************)
MaxMutations == 2        \* most mutations np.random.binomial draws for one call
MaxManagerLen == 2       \* longest genome apply_mutations_to_genome is given
MaxManagerPriority == 0  \* largest node priority drawn during the call

ManagerPriority == 0..MaxManagerPriority

ManagerCutPriorities(groot, pos) ==
    IF CutsInside(groot, pos) THEN ManagerPriority \X ManagerPriority
    ELSE {<<0, 0>>}

\* MutationConfig.small_mutation_max_size
small_mutation_max_size == MaxArgLen

Mutation(op, a, b, c) == [op |-> op, a |-> a, b |-> b, c |-> c]

\* MutationManager.select_mutation_type: the keys of MutationConfig.weights
mutation_types ==
    {"PointMutation", "SmallInsertion", "SmallDeletion", "Deletion",
     "Duplication", "Inversion"}

\* a size and a start position as create_mutation draws them:
\* size = random.randint(1, max_size), start = random.randint(0, length - size)
SizedRanges(max_size, genome_length) ==
    {x \in (1..max_size) \X (0..genome_length) : x[2] <= genome_length - x[1]}

\* MutationManager.create_mutation, for every random draw
create_mutation(groot, mutation_type) ==
    LET genome_length == GenomeLength(groot)
    IN  CASE mutation_type = "SmallDeletion" ->
               {Mutation("SmallDeletion", x[2], x[1], NoArg) :
                   x \in SizedRanges(Min(small_mutation_max_size, genome_length),
                                     genome_length)}
          [] mutation_type = "SmallInsertion" ->
               {Mutation("SmallInsertion", position, length, NoArg) :
                   position \in 0..genome_length,
                   length \in 1..small_mutation_max_size}
          [] mutation_type = "Deletion" ->
               {Mutation("Deletion", x[2], x[2] + x[1] - 1, NoArg) :
                   x \in SizedRanges(genome_length, genome_length)}
          [] mutation_type = "Duplication" ->
               {Mutation("Duplication", x[2], x[2] + x[1] - 1, insertion_pos) :
                   x \in SizedRanges(genome_length, genome_length),
                   insertion_pos \in 0..genome_length}
          [] mutation_type = "Inversion" ->
               {Mutation("Inversion", x[2], x[2] + x[1], NoArg) :
                   x \in SizedRanges(genome_length, genome_length)}
          \* the stand-in the tests make create_mutation return: is_neutral
          \* returns a, or raises; apply does nothing, or raises
          [] mutation_type = "Mock" ->
               {Mutation("Mock", a, b, NoArg) :
                   a \in {"True", "False", "Exception"},
                   b \in {"none", "Exception"}}
          [] OTHER ->
               {Mutation("PointMutation", position, NoArg, NoArg) :
                   position \in 0..(genome_length - 1)}

\* mutation.is_neutral(genome)
Mutation_is_neutral(m, groot) ==
    CASE m.op = "PointMutation" -> PointMutation_is_neutral(groot, m.a)
      [] m.op = "SmallInsertion" -> SmallInsertion_is_neutral(groot, m.a, m.b)
      [] m.op = "SmallDeletion" -> SmallDeletion_is_neutral(groot, m.a, m.b)
      [] m.op = "Deletion" -> Deletion_is_neutral(groot, m.a, m.b)
      [] m.op = "Duplication" -> Duplication_is_neutral(groot, m.a, m.b, m.c)
      [] m.op = "Inversion" -> Inversion_is_neutral(groot, m.a, m.b)
      [] m.op = "Mock" -> IF m.a = "Exception" THEN Raised("Exception")
                          ELSE Returned(m.a = "True")

\* the positions at which mutation.apply splits the tree
CutPositions(m) ==
    CASE m.op = "SmallInsertion" -> <<m.a, -1>>
      [] m.op = "SmallDeletion" -> <<m.a, m.a + m.b>>
      [] m.op = "Deletion" -> <<m.a, m.b + 1>>
      [] m.op = "Duplication" -> <<m.c, -1>>
      [] m.op = "Inversion" -> <<m.a, m.b>>
      [] OTHER -> <<-1, -1>>

\* mutation.apply(genome)
Mutation_apply(m, groot, is_circular, fresh, prios, sid) ==
    CASE m.op = "PointMutation" -> PointMutation_apply(groot, m.a)
      [] m.op = "SmallInsertion" -> SmallInsertion_apply(groot, m.a, m.b, fresh, sid)
      [] m.op = "SmallDeletion" ->
            SmallDeletion_apply(groot, is_circular, m.a, m.b, fresh)
      [] m.op = "Deletion" -> Deletion_apply(groot, is_circular, m.a, m.b, fresh)
      [] m.op = "Duplication" -> Duplication_apply(groot, m.a, m.b, m.c, fresh, sid)
      [] m.op = "Inversion" -> Inversion_apply(groot, m.a, m.b, fresh, prios)
      [] m.op = "Mock" -> IF m.b = "Exception" THEN Failed("Exception", groot)
                          ELSE Done(groot)

CallMade(call, outcome) == [call |-> call, outcome |-> outcome]

\* return neutral_count, non_neutral_count, survived
ManagerReturned(neutral_count, non_neutral_count, survived, calls) ==
    [manager EXCEPT !.pc = "returned",
                    !.neutral_count = neutral_count,
                    !.non_neutral_count = non_neutral_count,
                    !.survived = survived,
                    !.calls = calls]

\* the call, up to the loop
ManagerEnter ==
    /\ manager.pc = "not called"
    /\ IF GenomeLength(root) = 0
       THEN manager' = [ManagerReturned(0, 0, FALSE, <<>>)
                           EXCEPT !.empty_at_entry = TRUE]
       ELSE \E num_mutations \in 0..Min(MaxMutations, GenomeLength(root)) :
               manager' = [manager EXCEPT !.pc = "loop",
                                          !.num_mutations = num_mutations]
    /\ UNCHANGED <<root, circular, next_sid, ops, pre, last, other>>

\* the body of the loop for mutation m: `neutral` is what m.is_neutral(genome)
\* gives and `applied` what m.apply(genome) gives
IterationOutcome(m, neutral, applied) ==
    LET asked == Append(manager.calls,
                        CallMade("is_neutral", NeutralOutcome(neutral)))
        tried == Append(asked, CallMade("apply", applied.raised))
    IN  /\ pre' = root
        /\ next_sid' = next_sid + 8 + Len(to_list(applied.root))
        /\ IF neutral.raised # "none" \/ ~neutral.value
           THEN /\ root' = root
                /\ last' = Call(m.op, m.a, m.b, m.c, "none",
                                NeutralOutcome(neutral), "n/a")
                /\ manager' = ManagerReturned(manager.neutral_count,
                                  manager.non_neutral_count + 1, FALSE, asked)
           ELSE /\ last' = Call(m.op, m.a, m.b, m.c, "none", "True",
                                applied.raised)
                /\ IF applied.raised # "none"
                   THEN /\ root' = applied.root
                        /\ manager' = ManagerReturned(manager.neutral_count,
                                          manager.non_neutral_count + 1,
                                          FALSE, tried)
                   ELSE \E cprios \in [1..Len(to_list(applied.root))
                                         -> ManagerPriority] :
                          /\ root' = coalesce_all(applied.root, cprios,
                                                  next_sid + 7).root
                          /\ manager' =
                               [manager EXCEPT
                                  !.iterations = @ + 1,
                                  !.neutral_count = @ + 1,
                                  !.calls = Append(tried,
                                      CallMade("coalesce_all", "none"))]
        /\ other' = OtherSeen(root')

\* one iteration of the loop
ManagerIteration ==
    /\ manager.pc = "loop"
    /\ manager.iterations < manager.num_mutations
    /\ IF GenomeLength(root) = 0
       THEN /\ manager' = ManagerReturned(manager.neutral_count,
                                          manager.non_neutral_count, FALSE,
                                          manager.calls)
            /\ UNCHANGED <<root, next_sid, pre, last, other>>
       ELSE \E mutation_type \in mutation_types \cup {"Mock"} :
            \E m \in create_mutation(root, mutation_type) :
            \E cut1 \in ManagerCutPriorities(root, CutPositions(m)[1]),
               cut2 \in ManagerCutPriorities(root, CutPositions(m)[2]),
               prio_mid \in ManagerPriority :
            \E prios \in [1..(IF m.op = "Inversion"
                              THEN InvertedCount(root, m.a, m.b) ELSE 0)
                            -> ManagerPriority] :
              IterationOutcome(m, Mutation_is_neutral(m, root),
                               Mutation_apply(m, root, circular,
                                   FreshOf(cut1, cut2, prio_mid, next_sid + 1),
                                   prios, next_sid))
    /\ UNCHANGED <<circular, ops>>

\* the return that follows the loop
ManagerReturn ==
    /\ manager.pc = "loop"
    /\ manager.iterations = manager.num_mutations
    /\ manager' = ManagerReturned(manager.neutral_count,
                                  manager.non_neutral_count, TRUE, manager.calls)
    /\ UNCHANGED <<root, circular, next_sid, ops, pre, last, other>>

ManagerNext == ManagerEnter \/ ManagerIteration \/ ManagerReturn

\* Genome(segments, circular), handed to apply_mutations_to_genome
ManagerInit ==
    \E segments \in {l \in InitSegmentLists : SumLen(l) <= MaxManagerLen},
       c \in BOOLEAN :
      \E prios \in [1..Len(segments) -> ManagerPriority] :
        /\ root = GenomeInit(segments, prios)
        /\ circular = c
        /\ next_sid = Len(segments) + 1
        /\ ops = 0
        /\ pre = None
        /\ last = Call("Genome", NoArg, NoArg, NoArg, "n/a", "n/a", "none")
        /\ other = NoOther
        /\ manager = NotCalled

ManagerSpec == ManagerInit /\ [][ManagerNext]_vars

(***************************************************************************)
(* What the properties read: the genome as a list, independently of the    *)
(* sub_len bookkeeping of the tree.                                        *)
(***************************************************************************)
RECURSIVE TrueLength(_)
TrueLength(node) ==
    IF node = None THEN 0
    ELSE node.segment.length + TrueLength(node.left) + TrueLength(node.right)

RECURSIVE SubLenConsistent(_)
SubLenConsistent(node) ==
    \/ node = None
    \/ /\ node.sub_len = TrueLength(node)
       /\ SubLenConsistent(node.left)
       /\ SubLenConsistent(node.right)

RECURSIVE NodeCount(_)
NodeCount(node) ==
    IF node = None THEN 0 ELSE 1 + NodeCount(node.left) + NodeCount(node.right)


Sids(segments) == {segments[i].sid : i \in 1..Len(segments)}

\* one entry per base: the variant and orientation of the segment over it
RECURSIVE Bases(_)
Bases(segments) ==
    IF segments = <<>> THEN <<>>
    ELSE [i \in 1..Head(segments).length |->
             [cls |-> Head(segments).cls,
              promoter_direction |-> Head(segments).promoter_direction]]
         \o Bases(Tail(segments))

NonCodingBases(n) ==
    [i \in 1..n |-> [cls |-> "NonCodingSegment", promoter_direction |-> NoDirection]]

\* bases [from, to) of a sequence of bases
Slice(bases, from, to) == SubSeq(bases, from + 1, to)

StartOf(segments, i) == SumLen(SubSeq(segments, 1, i - 1))
EndOf(segments, i) == SumLen(SubSeq(segments, 1, i))

\* the index of the segment over base p
IndexOver(segments, p) ==
    CHOOSE i \in 1..Len(segments) : StartOf(segments, i) <= p /\ p < EndOf(segments, i)

\* gap position pos lies between two segments or at an end of the list
IsBoundary(segments, pos) == \E i \in 0..Len(segments) : EndOf(segments, i) = pos

IsNC(segment) == segment.cls = "NonCodingSegment"

CodingOnly(segments) == SelectSeq(segments, LAMBDA x : x.cls = "CodingSegment")

PreSegments == to_list(pre)
NowSegments == to_list(root)
PreLength == SumLen(PreSegments)
NowLength == SumLen(NowSegments)

\* the last call was made on a genome whose bookkeeping was sound
OnSoundGenome == SubLenConsistent(pre)

(***************************************************************************)
(* C1.  After construction and after every operation or apply that         *)
(* returns on a genome whose sub_len were right, every node's sub_len is    *)
(* the sum of the segment lengths of its subtree, and Genome.length is the *)
(* sum of segment.length over iter_segments().                             *)
(***************************************************************************)
C1_SubLenIsSumOfLengths ==
    (last.raised = "none" /\ OnSoundGenome)
      => /\ SubLenConsistent(root)
         /\ GenomeLength(root)
              = SumLen([i \in 1..Len(iter_segments(root)) |->
                           iter_segments(root)[i].segment])

C1_Witness ==
    /\ last.op = "Inversion" /\ last.raised = "none"
    /\ NodeCount(root) > NodeCount(pre)
    /\ NodeCount(root) = 3
    /\ root.left # None /\ root.right # None

(***************************************************************************)
(* C2.  Every segment held by the genome has length > 0; the two segments  *)
(* a split creates are strictly shorter than the segment it cuts; and       *)
(* constructing a segment of length <= 0 (Duplication.apply, when its        *)
(* computed length is not positive) raises ValueError.                      *)
(***************************************************************************)
C2_SegmentLengthsPositive ==
    /\ \A i \in 1..Len(NowSegments) :
          /\ IsSegment(NowSegments[i]) /\ NowSegments[i].length > 0
          /\ \A n \in {-1, 0} :
                /\ clone_with_length(NowSegments[i], n, next_sid)
                     = Raised("ValueError")
                /\ NonCodingSegment(n, next_sid) = Raised("ValueError")
                /\ CodingSegment(n, next_sid, FORWARD) = Raised("ValueError")
    /\ (last.op = "split_by_pos" /\ last.raised = "none" /\ OnSoundGenome)
         => \A i \in 1..Len(NowSegments) :
               NowSegments[i].sid \notin Sids(PreSegments)
                 => /\ 0 < NowSegments[i].length
                    /\ NowSegments[i].length
                         < PreSegments[IndexOver(PreSegments, last.a)].length
    /\ (last.op \in {"coalesce_all", "extend_segment_at"}
          /\ last.raised = "none" /\ OnSoundGenome)
         => \A i \in 1..Len(NowSegments) :
               NowSegments[i].sid \notin Sids(PreSegments)
                 => \E j \in 1..Len(PreSegments) :
                       NowSegments[i].length >= PreSegments[j].length
    /\ (last.op = "Duplication"
          /\ Duplication_get_length(pre, last.a, last.b) <= 0)
         => last.raised = "ValueError" /\ root = pre

C2_Witness ==
    /\ last.op = "Duplication" /\ last.raised = "ValueError"
    /\ Duplication_get_length(pre, last.a, last.b) <= 0
    /\ Len(PreSegments) = 3

(***************************************************************************)
(* C3.  On a non-empty genome, find_segment_at_position(p, BASE) with       *)
(* 0 <= p < length returns (segment, offset, seg_start, seg_end) with       *)
(* seg_start <= p < seg_end, offset = p - seg_start, seg_end - seg_start =  *)
(* segment.length, and segment the one the in-order iteration places over  *)
(* base p.                                                                 *)
(***************************************************************************)
C3_FindConsistency ==
    (/\ last.op = "find_segment_at_position" /\ last.sys = BASE
     /\ OnSoundGenome
     /\ 0 <= last.a /\ last.a < PreLength)
      => /\ last.raised = "none"
         /\ last.ret.seg_start <= last.a /\ last.a < last.ret.seg_end
         /\ last.ret.offset = last.a - last.ret.seg_start
         /\ last.ret.seg_end - last.ret.seg_start = last.ret.segment.length
         /\ last.ret.segment = PreSegments[IndexOver(PreSegments, last.a)]
         /\ last.ret.seg_start = StartOf(PreSegments, IndexOver(PreSegments, last.a))

C3_Witness ==
    /\ last.op = "find_segment_at_position" /\ last.sys = BASE
    /\ last.raised = "none"
    /\ NodeCount(root) = 2
    /\ last.ret.offset > 0 /\ last.ret.seg_start > 0

(***************************************************************************)
(* C4.  split_by_pos(root, pos) with 0 <= pos <= sub_len returns (left,    *)
(* right) of total lengths pos and sub_len - pos, and merge(left, right)   *)
(* holds the segments of the original tree in order, except that a segment *)
(* cut strictly inside appears as two adjacent segments of its variant and *)
(* orientation whose lengths sum to its length; a split at a boundary      *)
(* creates no segment.                                                     *)
(***************************************************************************)
C4_SplitMergeRoundTrip ==
    (/\ last.op = "split_by_pos" /\ OnSoundGenome
     /\ 0 <= last.a /\ last.a <= GenomeLength(pre))
      => /\ last.raised = "none"
         /\ TrueLength(last.ret.left) = last.a
         /\ SubLenOf(last.ret.left) = last.a
         /\ TrueLength(last.ret.right) = GenomeLength(pre) - last.a
         /\ SubLenOf(last.ret.right) = GenomeLength(pre) - last.a
         /\ to_list(last.ret.left) \o to_list(last.ret.right) = NowSegments
         /\ IF IsBoundary(PreSegments, last.a)
            THEN NowSegments = PreSegments
            ELSE LET k == IndexOver(PreSegments, last.a)
                     cut == PreSegments[k]
                 IN  /\ Len(NowSegments) = Len(PreSegments) + 1
                     /\ SubSeq(NowSegments, 1, k - 1) = SubSeq(PreSegments, 1, k - 1)
                     /\ SubSeq(NowSegments, k + 2, Len(NowSegments))
                          = SubSeq(PreSegments, k + 1, Len(PreSegments))
                     /\ Shape(NowSegments[k])
                          = [Shape(cut) EXCEPT
                               !.length = last.a - StartOf(PreSegments, k)]
                     /\ Shape(NowSegments[k + 1])
                          = [Shape(cut) EXCEPT
                               !.length = EndOf(PreSegments, k) - last.a]
                     /\ NowSegments[k].sid \notin Sids(PreSegments)
                     /\ NowSegments[k + 1].sid \notin Sids(PreSegments)
                     /\ NowSegments[k].sid # NowSegments[k + 1].sid

C4_Witness ==
    /\ last.op = "split_by_pos" /\ last.raised = "none"
    /\ ~IsBoundary(PreSegments, last.a)
    /\ NodeCount(pre) = 2
    /\ PreSegments[IndexOver(PreSegments, last.a)].cls = "CodingSegment"
    /\ PreSegments[IndexOver(PreSegments, last.a)].promoter_direction = REVERSE
    /\ NodeCount(last.ret.left) = 2

(***************************************************************************)
(* C5.  coalesce_all is idempotent: calling it again on the genome it      *)
(* leaves gives the same ordered (variant, orientation, length) sequence.  *)
(***************************************************************************)
C5_CoalesceIdempotent ==
    (last.op = "coalesce_all" /\ last.raised = "none")
      => \A prios \in [1..Len(NowSegments) -> Priority] :
            LET again == coalesce_all(root, prios, next_sid)
            IN  /\ again.raised = "none"
                /\ Shapes(to_list(again.root)) = Shapes(NowSegments)

C5_Witness ==
    /\ last.op = "coalesce_all" /\ last.raised = "none"
    /\ Len(PreSegments) = 3 /\ Len(NowSegments) = 1

(***************************************************************************)
(* C6.  After coalesce_all() no two consecutive segments are both          *)
(* non-coding, the length is unchanged, every maximal run of non-coding    *)
(* segments has become one non-coding segment of the run's length, coding  *)
(* segments keep their order, length, orientation and identity, a          *)
(* non-coding segment without non-coding neighbour keeps its identity, and *)
(* an empty genome keeps an absent root.                                   *)
(***************************************************************************)
C6_CoalesceResult ==
    (last.op = "coalesce_all" /\ OnSoundGenome)
      => /\ last.raised = "none"
         /\ \A i \in 1..(Len(NowSegments) - 1) :
               ~(IsNC(NowSegments[i]) /\ IsNC(NowSegments[i + 1]))
         /\ GenomeLength(root) = GenomeLength(pre)
         /\ Bases(NowSegments) = Bases(PreSegments)
         /\ CodingOnly(NowSegments) = CodingOnly(PreSegments)
         /\ \A i \in 1..Len(PreSegments) :
               (/\ IsNC(PreSegments[i])
                /\ (i = 1 \/ ~IsNC(PreSegments[i - 1]))
                /\ (i = Len(PreSegments) \/ ~IsNC(PreSegments[i + 1])))
                 => \E j \in 1..Len(NowSegments) : NowSegments[j] = PreSegments[i]
         /\ \A j \in 1..Len(NowSegments) :
               NowSegments[j].sid \in Sids(PreSegments)
                 => \E i \in 1..Len(PreSegments) : NowSegments[j] = PreSegments[i]
         /\ pre = None => root = None

C6_Witness ==
    /\ last.op = "coalesce_all" /\ last.raised = "none"
    /\ Len(PreSegments) = 3 /\ Len(NowSegments) = 2
    /\ IsNC(NowSegments[2])
    /\ NowSegments[2].length = PreSegments[2].length + PreSegments[3].length

(***************************************************************************)
(* C7.  insert_at_gap(pos, NonCoding(n)) with 0 <= pos <= length grows the *)
(* genome by exactly n and leaves the inserted bases at [pos, pos + n);    *)
(* a non-coding segment ending at pos and a non-coding segment starting at *)
(* pos are absorbed with the new segment into one non-coding segment of    *)
(* the combined length.  A coding argument raises TypeError, and otherwise *)
(* pos outside [0, length] raises IndexError; both leave the genome        *)
(* unchanged.                                                              *)
(***************************************************************************)
\* the bases of the non-coding segment of PreSegments that end at gap pos
AbsorbedLeft(pos) ==
    IF pos > 0 /\ IsNC(PreSegments[IndexOver(PreSegments, pos - 1)])
    THEN pos - StartOf(PreSegments, IndexOver(PreSegments, pos - 1))
    ELSE 0

\* the bases of the non-coding segment of PreSegments that start at gap pos
AbsorbedRight(pos) ==
    IF pos < PreLength /\ IsNC(PreSegments[IndexOver(PreSegments, pos)])
    THEN EndOf(PreSegments, IndexOver(PreSegments, pos)) - pos
    ELSE 0

C7_InsertAtGap ==
    (last.op = "insert_at_gap" /\ OnSoundGenome)
      => IF last.c = 1
         THEN last.raised = "TypeError" /\ root = pre
         ELSE IF last.a < 0 \/ last.a > PreLength
         THEN last.raised = "IndexError" /\ root = pre
         ELSE /\ last.raised = "none"
              /\ GenomeLength(root) = GenomeLength(pre) + last.b
              /\ Bases(NowSegments)
                   = Slice(Bases(PreSegments), 0, last.a)
                       \o NonCodingBases(last.b)
                       \o Slice(Bases(PreSegments), last.a, PreLength)
              /\ LET k == IndexOver(NowSegments, last.a)
                 IN  /\ IsNC(NowSegments[k])
                     /\ StartOf(NowSegments, k) = last.a - AbsorbedLeft(last.a)
                     /\ EndOf(NowSegments, k)
                          = last.a + last.b + AbsorbedRight(last.a)

C7_Witness ==
    /\ last.op = "insert_at_gap" /\ last.raised = "none"
    /\ Len(PreSegments) = 2 /\ Len(NowSegments) = 2
    /\ ~IsBoundary(PreSegments, last.a)
    /\ IsNC(PreSegments[IndexOver(PreSegments, last.a)])
    /\ AbsorbedLeft(last.a) > 0 /\ AbsorbedRight(last.a) > 0

(***************************************************************************)
(* C8.  delete_range(start, end) removes the bases of [start, end): for    *)
(* 0 <= start < end <= length the bases left are the original [0, start)   *)
(* followed by the original [end, length); for start > end on a circular   *)
(* genome the bases left are the original [end, start); for start > end on *)
(* a linear genome ValueError is raised and the genome is unchanged; start *)
(* outside [0, length) or end outside [0, length] raises IndexError.       *)
(***************************************************************************)
C8_DeleteRange ==
    (last.op = "delete_range" /\ OnSoundGenome)
      => IF \/ last.a < 0 \/ last.a >= PreLength
            \/ last.b < 0 \/ last.b > PreLength
         THEN last.raised = "IndexError"
         ELSE IF last.a < last.b
         THEN /\ last.raised = "none"
              /\ GenomeLength(root) = GenomeLength(pre) - (last.b - last.a)
              /\ Bases(NowSegments)
                   = Slice(Bases(PreSegments), 0, last.a)
                       \o Slice(Bases(PreSegments), last.b, PreLength)
         ELSE IF last.a > last.b /\ circular
         THEN /\ last.raised = "none"
              /\ GenomeLength(root) = last.a - last.b
              /\ Bases(NowSegments) = Slice(Bases(PreSegments), last.b, last.a)
         ELSE IF last.a > last.b
         THEN last.raised = "ValueError" /\ root = pre
         ELSE last.raised = "none" /\ Bases(NowSegments) = Bases(PreSegments)

C8_Witness ==
    /\ last.op = "delete_range" /\ last.raised = "none"
    /\ circular /\ last.a > last.b /\ last.b > 0
    /\ Len(PreSegments) = 2 /\ Len(NowSegments) = 1
    /\ ~IsBoundary(PreSegments, last.a)

(***************************************************************************)
(* C9.  extend_segment_at(pos, delta) raises ValueError when delta < 0,    *)
(* otherwise IndexError when pos is outside [0, length] or the genome is   *)
(* empty, otherwise TypeError when the segment at GAP pos is coding, and   *)
(* leaves the genome unchanged in these cases.  Otherwise exactly the      *)
(* non-coding segment at GAP pos (the last segment when pos = length) is   *)
(* replaced by a segment of length + delta with a fresh identity, every    *)
(* other segment keeps its order, length and identity, and the genome      *)
(* grows by delta.                                                         *)
(***************************************************************************)
\* the index in PreSegments of the segment at GAP pos
TargetIndex(pos) ==
    IF pos = PreLength THEN Len(PreSegments) ELSE IndexOver(PreSegments, pos)

ExtendedAt(pos, delta) ==
    /\ last.raised = "none"
    /\ GenomeLength(root) = GenomeLength(pre) + delta
    /\ Len(NowSegments) = Len(PreSegments)
    /\ \A i \in 1..Len(PreSegments) :
          IF i = TargetIndex(pos)
          THEN /\ Shape(NowSegments[i])
                    = [Shape(PreSegments[i]) EXCEPT
                         !.length = PreSegments[i].length + delta]
               /\ IsNC(NowSegments[i])
               /\ NowSegments[i].sid \notin Sids(PreSegments)
          ELSE NowSegments[i] = PreSegments[i]

C9_ExtendSegmentAt ==
    (last.op = "extend_segment_at" /\ OnSoundGenome)
      => IF last.b < 0
         THEN last.raised = "ValueError" /\ root = pre
         ELSE IF last.a < 0 \/ last.a > PreLength \/ PreSegments = <<>>
         THEN last.raised = "IndexError" /\ root = pre
         ELSE IF ~IsNC(PreSegments[TargetIndex(last.a)])
         THEN last.raised = "TypeError" /\ root = pre
         ELSE ExtendedAt(last.a, last.b)

\* C9 as the claim states it: any pos in [0, length] that does not locate a
\* coding segment extends a segment, on the empty genome too
C9_AsStated ==
    (last.op = "extend_segment_at" /\ OnSoundGenome)
      => IF last.b < 0
         THEN last.raised = "ValueError" /\ root = pre
         ELSE IF last.a < 0 \/ last.a > PreLength
         THEN last.raised = "IndexError" /\ root = pre
         ELSE IF PreSegments # <<>> /\ ~IsNC(PreSegments[TargetIndex(last.a)])
         THEN last.raised = "TypeError" /\ root = pre
         ELSE /\ last.raised = "none"
              /\ GenomeLength(root) = GenomeLength(pre) + last.b
              /\ PreSegments # <<>> => ExtendedAt(last.a, last.b)

C9_Witness ==
    /\ last.op = "extend_segment_at" /\ last.raised = "none"
    /\ last.b > 0 /\ last.a = PreLength
    /\ Len(PreSegments) = 3
    /\ NowSegments[3].length = PreSegments[3].length + last.b

\* the empty genome refuses the extension at pos = 0
C9_EmptyWitness ==
    /\ last.op = "extend_segment_at" /\ pre = None
    /\ last.a = 0 /\ last.b > 0
    /\ last.raised = "IndexError" /\ root = None

(***************************************************************************)
(* C10.  SmallInsertion(position, n).is_neutral(genome) is true exactly    *)
(* when position = length, or the segment at GAP position is non-coding,   *)
(* or position is the start of a segment; for a position in [0, length]    *)
(* apply then grows the genome by exactly n.                               *)
(***************************************************************************)
C10_SmallInsertionNeutral ==
    (last.op = "SmallInsertion" /\ last.init = "none" /\ OnSoundGenome)
      => /\ (last.neutral = "True")
              <=> \/ last.a = PreLength
                  \/ /\ last.a < PreLength
                     /\ \/ IsNC(PreSegments[IndexOver(PreSegments, last.a)])
                        \/ StartOf(PreSegments, IndexOver(PreSegments, last.a))
                             = last.a
         /\ last.a <= PreLength
              => /\ last.neutral \in {"True", "False"}
                 /\ last.raised = "none"
                 /\ GenomeLength(root) = GenomeLength(pre) + last.b

C10_Witness ==
    /\ last.op = "SmallInsertion" /\ last.init = "none"
    /\ last.a = PreLength /\ Len(PreSegments) = 3
    /\ ~IsNC(PreSegments[3])
    /\ last.neutral = "True" /\ last.raised = "none"
    /\ GenomeLength(root) = GenomeLength(pre) + last.b

\* an insertion strictly inside a coding segment is not neutral
C10_InsideCodingWitness ==
    /\ last.op = "SmallInsertion" /\ last.init = "none"
    /\ last.a < PreLength /\ ~IsBoundary(PreSegments, last.a)
    /\ ~IsNC(PreSegments[IndexOver(PreSegments, last.a)])
    /\ last.neutral = "False"

(***************************************************************************)
(* Spans of bases, read on the list of segments before the call.           *)
(***************************************************************************)
\* the bases start..end, wrapping through the origin when start > end
SpanBases(start, end) ==
    IF start <= end THEN start..end
    ELSE (start..(PreLength - 1)) \cup (0..end)

\* every base of the set exists and all lie in one non-coding segment instance
InOneNonCodingInstance(bases) ==
    /\ \A p \in bases : 0 <= p /\ p < PreLength
    /\ \A p \in bases : IsNC(PreSegments[IndexOver(PreSegments, p)])
    /\ \A p, q \in bases :
          IndexOver(PreSegments, p) = IndexOver(PreSegments, q)

\* the set has a base in each of two consecutive non-coding segments
CoversTwoAdjacentNonCoding(bases) ==
    \E i \in 1..(Len(PreSegments) - 1) :
       /\ IsNC(PreSegments[i]) /\ IsNC(PreSegments[i + 1])
       /\ \E p, q \in bases :
             /\ IndexOver(PreSegments, p) = i
             /\ IndexOver(PreSegments, q) = i + 1

InRange(p) == 0 <= p /\ p < PreLength

(***************************************************************************)
(* C11.  SmallDeletion(position, length).is_neutral(genome) returns true   *)
(* only if every base position, .., position + length - 1 exists in the    *)
(* genome (position + length <= genome.length) and all of them belong to   *)
(* the same non-coding segment instance.                                   *)
(***************************************************************************)
C11_SmallDeletionNeutralInsideOneInstance ==
    (/\ last.op = "SmallDeletion" /\ last.init = "none" /\ OnSoundGenome
     /\ last.neutral = "True")
      => /\ last.a + last.b <= PreLength
         /\ InOneNonCodingInstance(last.a..(last.a + last.b - 1))

\* what SmallDeletion.is_neutral does guarantee: the span may run one base
\* past the end of the genome
C11_UpToOneBasePastTheEnd ==
    (/\ last.op = "SmallDeletion" /\ last.init = "none" /\ OnSoundGenome
     /\ last.neutral = "True")
      => /\ last.a + last.b <= PreLength + 1
         /\ InOneNonCodingInstance(
                {p \in last.a..(last.a + last.b - 1) : p < PreLength})

C11_PastTheEndWitness ==
    /\ last.op = "SmallDeletion" /\ last.init = "none"
    /\ last.neutral = "True"
    /\ last.a + last.b = PreLength + 1
    /\ last.raised = "IndexError" /\ root = pre

(***************************************************************************)
(* C12.  On a circular genome, Deletion(start, end) with start > end (both *)
(* base positions of the genome) is neutral if and only if the bases       *)
(* start..length-1 all lie in one non-coding segment instance and the      *)
(* bases 0..end all lie in one non-coding segment instance.                *)
(***************************************************************************)
C12_WrappedDeletionNeutral ==
    (/\ last.op = "Deletion" /\ OnSoundGenome /\ circular
     /\ last.a > last.b /\ InRange(last.a) /\ InRange(last.b))
      => /\ last.neutral \in {"True", "False"}
         /\ (last.neutral = "True")
              <=> /\ InOneNonCodingInstance(last.a..(PreLength - 1))
                  /\ InOneNonCodingInstance(0..last.b)

C12_Witness ==
    /\ last.op = "Deletion" /\ circular
    /\ last.a > last.b /\ InRange(last.a) /\ InRange(last.b)
    /\ Len(PreSegments) = 3 /\ ~IsNC(PreSegments[2])
    /\ last.neutral = "True"

\* a wrapped deletion through a coding base is not neutral
C12_CodingWitness ==
    /\ last.op = "Deletion" /\ circular
    /\ last.a > last.b /\ InRange(last.a) /\ InRange(last.b)
    /\ IsNC(PreSegments[1]) /\ IsNC(PreSegments[Len(PreSegments)])
    /\ \E p \in 0..last.b : ~IsNC(PreSegments[IndexOver(PreSegments, p)])
    /\ last.neutral = "False"

(***************************************************************************)
(* C13.  Deletion(start, end).is_neutral(genome) on a linear genome with   *)
(* start > end (both base positions of the genome) raises ValueError       *)
(* instead of returning a boolean.                                         *)
(***************************************************************************)
C13_LinearWrapRaisesValueError ==
    (/\ last.op = "Deletion" /\ OnSoundGenome /\ ~circular
     /\ last.a > last.b /\ InRange(last.a) /\ InRange(last.b))
      => last.neutral = "ValueError"

\* is_neutral never raises ValueError: on a linear genome it answers a wrapped
\* range exactly as on a circular one
C13_NeverValueError ==
    last.op = "Deletion" => last.neutral # "ValueError"

C13_LinearWrapWitness ==
    /\ last.op = "Deletion" /\ ~circular
    /\ last.a > last.b /\ InRange(last.a) /\ InRange(last.b)
    /\ last.neutral = "True"

(***************************************************************************)
(* C14.  A Deletion with start <= end whose span lies in non-coding bases  *)
(* of two distinct adjacent non-coding segment instances is not neutral,   *)
(* and after coalesce_all() on that genome the same Deletion is neutral.   *)
(***************************************************************************)
C14_NeutralAfterCoalesce ==
    (/\ last.op = "Deletion.is_neutral, coalesce_all, Deletion.is_neutral"
     /\ OnSoundGenome
     /\ last.a <= last.b /\ InRange(last.a) /\ InRange(last.b)
     /\ \A p \in SpanBases(last.a, last.b) :
           IsNC(PreSegments[IndexOver(PreSegments, p)])
     /\ CoversTwoAdjacentNonCoding(SpanBases(last.a, last.b)))
      => /\ last.neutral = "False"
         /\ last.raised = "none"
         /\ last.ret = "True"

\* C14 as the claim states it, for every span: the wrapped spans of a circular
\* genome too
C14_AsStated ==
    (/\ last.op = "Deletion.is_neutral, coalesce_all, Deletion.is_neutral"
     /\ OnSoundGenome
     /\ InRange(last.a) /\ InRange(last.b)
     /\ last.a > last.b => circular
     /\ \A p \in SpanBases(last.a, last.b) :
           IsNC(PreSegments[IndexOver(PreSegments, p)])
     /\ CoversTwoAdjacentNonCoding(SpanBases(last.a, last.b)))
      => /\ last.neutral = "False"
         /\ last.raised = "none"
         /\ last.ret = "True"

C14_Witness ==
    /\ last.op = "Deletion.is_neutral, coalesce_all, Deletion.is_neutral"
    /\ last.a < last.b /\ InRange(last.a) /\ InRange(last.b)
    /\ Len(PreSegments) = 3 /\ Len(NowSegments) = 2
    /\ CoversTwoAdjacentNonCoding(SpanBases(last.a, last.b))
    /\ last.neutral = "False" /\ last.ret = "True"

(***************************************************************************)
(* C15.  Deletion(start, end).apply removes the bases of the inclusive     *)
(* range: for start <= end < length the genome length decreases by         *)
(* end - start + 1, and on a circular genome with start > end it decreases *)
(* by (length - start) + (end + 1), for every such start and end.          *)
(***************************************************************************)
C15_DeletionApplyRemovesInclusiveRange ==
    (/\ last.op = "Deletion" /\ OnSoundGenome
     /\ InRange(last.a) /\ InRange(last.b)
     /\ last.a > last.b => circular)
      => /\ last.raised = "none"
         /\ GenomeLength(root)
              = GenomeLength(pre)
                  - (IF last.a <= last.b THEN last.b - last.a + 1
                     ELSE (PreLength - last.a) + (last.b + 1))

\* what Deletion.apply does: the wrapped range that covers the whole genome,
\* start = end + 1, removes nothing
C15_ExceptWholeGenomeWrap ==
    (/\ last.op = "Deletion" /\ OnSoundGenome
     /\ InRange(last.a) /\ InRange(last.b)
     /\ last.a > last.b => circular)
      => /\ last.raised = "none"
         /\ GenomeLength(root)
              = GenomeLength(pre)
                  - (IF last.a <= last.b THEN last.b - last.a + 1
                     ELSE IF last.a = last.b + 1 THEN 0
                     ELSE (PreLength - last.a) + (last.b + 1))

C15_WholeGenomeWrapWitness ==
    /\ last.op = "Deletion" /\ circular
    /\ InRange(last.a) /\ InRange(last.b) /\ last.a = last.b + 1
    /\ Len(PreSegments) = 3
    /\ last.raised = "none" /\ root = pre

(***************************************************************************)
(* C16.  Duplication(start, end, insertion_pos).is_neutral is false        *)
(* whenever insertion_pos falls strictly inside a coding segment, whatever *)
(* the source range; an insertion point at offset 0 of a segment, at the   *)
(* genome end, or inside a non-coding segment does not by itself make the  *)
(* duplication non-neutral: is_neutral then returns a boolean, and returns *)
(* true when the source range holds non-coding bases only.                 *)
(***************************************************************************)
\* gap position pos is strictly inside a coding segment
StrictlyInsideCoding(pos) ==
    /\ 0 < pos /\ pos < PreLength
    /\ ~IsNC(PreSegments[IndexOver(PreSegments, pos)])
    /\ StartOf(PreSegments, IndexOver(PreSegments, pos)) # pos

C16_GenomeEndWitness ==
    /\ last.op = "Duplication"
    /\ last.c = PreLength /\ Len(PreSegments) = 2
    /\ ~IsNC(PreSegments[2]) /\ PreSegments[2].length = 2
    /\ last.neutral = "True"

(***************************************************************************)
(* C17.  Duplication.is_neutral is false whenever the inclusive source     *)
(* range start..end (or either part of a wrapped range) contains the       *)
(* promoter base of a coding segment: the first base of a Forward coding   *)
(* segment or the last base of a Reverse coding segment.  This holds for   *)
(* every overlap size, a single shared base included.                      *)
(***************************************************************************)
\* the base that carries the promoter of the i-th segment, a coding one
PromoterBase(i) ==
    IF PreSegments[i].promoter_direction = FORWARD
    THEN StartOf(PreSegments, i)
    ELSE EndOf(PreSegments, i) - 1

\* the inclusive parts of the source range start..end
SourceParts(start, end) ==
    IF start <= end THEN {<<start, end>>}
    ELSE {<<start, PreLength - 1>>, <<0, end>>}

\* how many bases of the i-th segment lie in the inclusive part
SharedBases(i, part) ==
    Cardinality({p \in part[1]..part[2] :
                    StartOf(PreSegments, i) <= p /\ p < EndOf(PreSegments, i)})

CopiesPromoter(i, part) ==
    /\ ~IsNC(PreSegments[i])
    /\ part[1] <= PromoterBase(i) /\ PromoterBase(i) <= part[2]

ValidDuplication ==
    /\ last.op = "Duplication" /\ OnSoundGenome
    /\ InRange(last.a) /\ InRange(last.b)
    /\ 0 <= last.c /\ last.c <= PreLength

C17_PromoterInSourceNotNeutral ==
    (/\ ValidDuplication
     /\ \E part \in SourceParts(last.a, last.b) :
          \E i \in 1..Len(PreSegments) : CopiesPromoter(i, part))
      => last.neutral = "False"

\* what the code does: the promoter counts only when the part shares at
\* least two bases with the coding segment
C17_WhenTwoBasesAreShared ==
    (/\ ValidDuplication
     /\ \E part \in SourceParts(last.a, last.b) :
          \E i \in 1..Len(PreSegments) :
             CopiesPromoter(i, part) /\ SharedBases(i, part) >= 2)
      => last.neutral = "False"

\* a single-base duplication of a promoter base, found neutral
C17_SingleBaseWitness ==
    /\ ValidDuplication
    /\ last.a = last.b
    /\ \E i \in 1..Len(PreSegments) : CopiesPromoter(i, <<last.a, last.b>>)
    /\ last.neutral = "True"

(***************************************************************************)
(* C18.  Duplication(start, end, insertion_pos).apply inserts one          *)
(* non-coding block at insertion_pos whose length is the number of         *)
(* duplicated bases: the genome length increases by end - start + 1 when   *)
(* start <= end and by length - (start - end - 1) when the source range    *)
(* wraps (start > end); the duplicated segments themselves are not copied. *)
(***************************************************************************)
\* the bases after a non-coding block of n bases was inserted at gap pos
WithBlockAt(pos, n) ==
    Slice(Bases(PreSegments), 0, pos)
      \o NonCodingBases(n)
      \o Slice(Bases(PreSegments), pos, PreLength)

C18_DuplicationApply ==
    (ValidDuplication /\ (last.a > last.b => circular))
      => LET n == IF last.a <= last.b THEN last.b - last.a + 1
                  ELSE PreLength - (last.a - last.b - 1)
         IN  /\ last.raised = "none"
             /\ n = Cardinality(SpanBases(last.a, last.b))
             /\ NowLength = PreLength + n
             /\ Bases(NowSegments) = WithBlockAt(last.c, n)

\* what the code does: the claim when start <= end; for a wrapped range a
\* block of length - (start - end + 1) bases, and ValueError with the genome
\* unchanged when that number is not positive
C18_AsCoded ==
    ValidDuplication
      => IF last.a <= last.b
         THEN /\ last.raised = "none"
              /\ NowLength = PreLength + Cardinality(SpanBases(last.a, last.b))
              /\ Bases(NowSegments) = WithBlockAt(last.c, last.b - last.a + 1)
         ELSE LET n == PreLength - (last.a - last.b + 1)
              IN  IF n <= 0 THEN last.raised = "ValueError" /\ root = pre
                  ELSE /\ last.raised = "none"
                       /\ Bases(NowSegments) = WithBlockAt(last.c, n)

\* a wrapped duplication on a circular genome that inserted fewer bases than
\* it duplicates
C18_WrappedWitness ==
    /\ ValidDuplication /\ circular
    /\ last.a > last.b /\ last.raised = "none"
    /\ NowLength = PreLength + Cardinality(SpanBases(last.a, last.b)) - 2

\* a duplication of a range that holds coding bases
C18_NonWrappedWitness ==
    /\ ValidDuplication
    /\ last.a < last.b /\ last.raised = "none"
    /\ ~IsNC(PreSegments[IndexOver(PreSegments, last.a)])
    /\ NowLength = PreLength + 2

(***************************************************************************)
(* C19.  Deletion.is_neutral and Duplication.is_neutral raise IndexError   *)
(* whenever a coordinate is invalid for the genome's current length: start *)
(* or end (BASE coordinates) negative or >= genome.length, or              *)
(* Duplication's insertion_pos (GAP) outside [0, genome.length]; for such  *)
(* coordinates they never return a boolean.                                *)
(***************************************************************************)
InvalidGap(pos) == pos < 0 \/ pos > PreLength

C19_InvalidCoordinatesRaiseIndexError ==
    (/\ last.op \in {"Deletion", "Duplication"} /\ OnSoundGenome
     /\ \/ ~InRange(last.a)
        \/ ~InRange(last.b)
        \/ last.op = "Duplication" /\ InvalidGap(last.c))
      => last.neutral = "IndexError"

\* what the code does: Deletion validates start_pos, Duplication validates
\* insertion_pos
C19_ValidatedCoordinates ==
    (/\ last.op \in {"Deletion", "Duplication"} /\ OnSoundGenome
     /\ \/ last.op = "Deletion" /\ ~InRange(last.a)
        \/ last.op = "Duplication" /\ InvalidGap(last.c))
      => last.neutral = "IndexError"

\* a Deletion whose end_pos is genome.length, found neutral
C19_DeletionWitness ==
    /\ last.op = "Deletion" /\ PreLength > 0
    /\ InRange(last.a) /\ last.b = PreLength
    /\ last.neutral = "True"

\* a Duplication with a negative start_pos, found neutral
C19_DuplicationWitness ==
    /\ last.op = "Duplication" /\ PreLength > 0
    /\ last.a < 0 /\ InRange(last.b) /\ ~InvalidGap(last.c)
    /\ last.neutral = "True"

(***************************************************************************)
(* C20.  Inversion(start, end) orders its coordinates so that              *)
(* start_pos < end_pos (reverted is set when they were swapped) and        *)
(* rejects equal or negative coordinates with ValueError; is_neutral is    *)
(* true if and only if neither GAP cut point falls strictly inside a       *)
(* coding segment: each of start_pos and end_pos is at offset 0 of a       *)
(* segment, inside a non-coding segment, or equal to genome.length.  Whole *)
(* coding segments between the cut points do not make it non-neutral.      *)
(***************************************************************************)
C20_InversionOrdersAndIsNeutral ==
    (last.op = "Inversion" /\ OnSoundGenome)
      => LET m == Inversion_init(last.a, last.b)
         IN  IF last.a < 0 \/ last.b < 0 \/ last.a = last.b
             THEN /\ m.raised = "ValueError" /\ last.init = "ValueError"
                  /\ root = pre
             ELSE /\ m.raised = "none" /\ last.init = "none"
                  /\ m.start_pos = Min(last.a, last.b)
                  /\ m.end_pos = Max(last.a, last.b)
                  /\ m.start_pos < m.end_pos
                  /\ m.reverted = (last.a > last.b)
                  /\ m.end_pos <= PreLength
                       => last.neutral
                            = IF \/ StrictlyInsideCoding(m.start_pos)
                                 \/ StrictlyInsideCoding(m.end_pos)
                              THEN "False" ELSE "True"

\* a neutral inversion, given with its coordinates swapped, of a range that
\* holds a whole coding segment
C20_Witness ==
    /\ last.op = "Inversion" /\ last.init = "none"
    /\ last.a > last.b
    /\ Len(PreSegments) = 3 /\ ~IsNC(PreSegments[2])
    /\ last.b <= StartOf(PreSegments, 2) /\ EndOf(PreSegments, 2) <= last.a
    /\ last.a <= PreLength
    /\ last.neutral = "True"

\* an inversion up to the end of a genome whose last segment is coding
C20_GenomeEndWitness ==
    /\ last.op = "Inversion" /\ last.init = "none"
    /\ Len(PreSegments) = 2 /\ ~IsNC(PreSegments[2])
    /\ PreSegments[2].length = 2
    /\ last.a = 0 /\ last.b = PreLength
    /\ last.neutral = "True"

\* an inversion cut strictly inside a coding segment
C20_NotNeutralWitness ==
    /\ last.op = "Inversion" /\ last.init = "none"
    /\ last.a < last.b /\ last.b <= PreLength
    /\ ~StrictlyInsideCoding(last.a) /\ StrictlyInsideCoding(last.b)
    /\ last.neutral = "False"

(***************************************************************************)
(* C21.  After apply of a neutral Inversion(start, end) the genome length  *)
(* is unchanged, the bases outside [start, end) keep their type and order, *)
(* and the bases inside [start, end) are the original ones in reverse      *)
(* order: the coding segments that were inside appear in reversed order,   *)
(* each with unchanged length and flipped promoter orientation, at         *)
(* mirrored offsets.                                                       *)
(***************************************************************************)
Lo == Min(last.a, last.b)
Hi == Max(last.a, last.b)

NeutralInversion ==
    /\ last.op = "Inversion" /\ OnSoundGenome
    /\ last.init = "none" /\ last.neutral = "True"

Flipped(x) ==
    IF x.cls = "CodingSegment"
    THEN [x EXCEPT !.promoter_direction = switch(x.promoter_direction)]
    ELSE x

Mirrored(seq) == [i \in 1..Len(seq) |-> Flipped(seq[Len(seq) + 1 - i])]

\* the indices of the coding segments that lie within [from, to)
CodingWithin(segments, from, to) ==
    {i \in 1..Len(segments) :
        /\ ~IsNC(segments[i])
        /\ from <= StartOf(segments, i) /\ EndOf(segments, i) <= to}

C21_NeutralInversionApply ==
    NeutralInversion
      => /\ last.raised = "none"
         /\ NowLength = PreLength
         /\ Slice(Bases(NowSegments), 0, Lo) = Slice(Bases(PreSegments), 0, Lo)
         /\ Slice(Bases(NowSegments), Hi, NowLength)
              = Slice(Bases(PreSegments), Hi, PreLength)
         /\ Slice(Bases(NowSegments), Lo, Hi)
              = Mirrored(Slice(Bases(PreSegments), Lo, Hi))
         /\ Cardinality(CodingWithin(NowSegments, Lo, Hi))
              = Cardinality(CodingWithin(PreSegments, Lo, Hi))
         /\ \A i \in CodingWithin(PreSegments, Lo, Hi) :
              \E j \in CodingWithin(NowSegments, Lo, Hi) :
                 /\ StartOf(NowSegments, j) = Lo + Hi - EndOf(PreSegments, i)
                 /\ Shape(NowSegments[j]) = Shape(Flipped(PreSegments[i]))

\* a neutral inversion of a range that holds a coding segment and something
\* else
C21_Witness ==
    /\ NeutralInversion /\ last.raised = "none"
    /\ CodingWithin(PreSegments, Lo, Hi) # {}
    /\ \E i \in CodingWithin(PreSegments, Lo, Hi) :
          StartOf(PreSegments, i) # Lo + Hi - EndOf(PreSegments, i)
    /\ Shapes(NowSegments) # Shapes(PreSegments)

(***************************************************************************)
(* C22.  Inversion.apply coalesces at both cut points: a non-coding flank  *)
(* and a non-coding piece of the inverted range next to it become one      *)
(* segment, at the left cut and at the right cut.  Consequently, after     *)
(* apply no two adjacent non-coding segments meet at position start or at  *)
(* position end.                                                           *)
(***************************************************************************)
\* two adjacent non-coding segments meet at gap position pos
NonCodingMeetAt(segments, pos) ==
    \E i \in 1..(Len(segments) - 1) :
       /\ EndOf(segments, i) = pos
       /\ IsNC(segments[i]) /\ IsNC(segments[i + 1])

AppliedInversion ==
    /\ last.op = "Inversion" /\ OnSoundGenome
    /\ last.init = "none" /\ last.raised = "none"

\* the inverted range [Lo, Hi) is one piece of a non-coding segment and the
\* bases on both sides of it are non-coding
OneNonCodingPieceBetweenNonCoding ==
    /\ 0 < Lo /\ Hi < PreLength
    /\ \A p \in (Lo - 1)..Hi : IsNC(PreSegments[IndexOver(PreSegments, p)])
    /\ \A pos \in (Lo + 1)..(Hi - 1) : ~IsBoundary(PreSegments, pos)

C22_NoAdjacentNonCodingAtCuts ==
    AppliedInversion
      => /\ ~NonCodingMeetAt(NowSegments, Lo)
         /\ ~NonCodingMeetAt(NowSegments, Hi)

\* what the code does: the right cut is left uncoalesced exactly when the
\* left coalescing used up the only piece of the inverted range
C22_ExceptOnePieceRange ==
    AppliedInversion
      => /\ ~NonCodingMeetAt(NowSegments, Lo)
         /\ NonCodingMeetAt(NowSegments, Hi) <=> OneNonCodingPieceBetweenNonCoding

\* a neutral inversion inside one non-coding segment, which leaves two
\* adjacent non-coding segments at its end
C22_OnePieceWitness ==
    /\ AppliedInversion /\ last.neutral = "True"
    /\ Len(PreSegments) = 1
    /\ NonCodingMeetAt(NowSegments, Hi)

\* an inversion coalesced at its right cut
C22_RightCutWitness ==
    /\ AppliedInversion
    /\ Len(PreSegments) = 3 /\ Len(NowSegments) = 2
    /\ Lo = 0 /\ Hi = 2
    /\ ~IsNC(NowSegments[1])
    /\ IsNC(NowSegments[2]) /\ NowSegments[2].length = 2

(***************************************************************************)
(* C23.  A mutation's apply is all-or-nothing: for each of the six         *)
(* operators, if apply(genome) raises, the genome is left exactly as       *)
(* before the call: same ordered segment sequence, same length, and every  *)
(* node's sub_len consistent.                                              *)
(***************************************************************************)
MutationOps ==
    {"PointMutation", "SmallInsertion", "SmallDeletion", "Deletion",
     "Duplication", "Inversion"}

ApplyRaised ==
    /\ last.op \in MutationOps /\ OnSoundGenome
    /\ last.init = "none" /\ last.raised \notin {"none", "n/a"}

GenomeAsBefore ==
    /\ NowSegments = PreSegments
    /\ GenomeLength(root) = GenomeLength(pre)
    /\ SubLenConsistent(root)

C23_ApplyAllOrNothing == ApplyRaised => GenomeAsBefore

\* what the code does: all-or-nothing for every operator but Inversion
C23_ExceptInversion ==
    (ApplyRaised /\ last.op # "Inversion") => GenomeAsBefore

\* an Inversion.apply that raised and left a shorter genome
C23_InversionWitness ==
    /\ ApplyRaised /\ last.op = "Inversion"
    /\ last.raised = "IndexError"
    /\ GenomeLength(root) < GenomeLength(pre)

\* a Deletion.apply that raised
C23_DeletionWitness ==
    /\ ApplyRaised /\ last.op = "Deletion"
    /\ PreLength > 0 /\ root = pre

(***************************************************************************)
(* C24.  Segments are immutable once created: no Genome operation or       *)
(* mutation apply changes the length, variant or promoter orientation of   *)
(* an existing segment instance.  A segment of the genome whose length or  *)
(* orientation differs from what was there before is a new instance with a *)
(* fresh identity.                                                         *)
(***************************************************************************)
\* the instances held before and after the call that are the same object
SameInstance(i, j) == NowSegments[i].sid = PreSegments[j].sid

AfterCall == last.op # "Genome" /\ OnSoundGenome

C24_SegmentsImmutable ==
    AfterCall
      => \A i \in 1..Len(NowSegments), j \in 1..Len(PreSegments) :
            SameInstance(i, j) => Shape(NowSegments[i]) = Shape(PreSegments[j])

\* what the code does: only Inversion.apply changes an instance, and only its
\* promoter orientation
C24_ExceptInvertedOrientation ==
    AfterCall
      => \A i \in 1..Len(NowSegments), j \in 1..Len(PreSegments) :
            SameInstance(i, j)
              => /\ NowSegments[i].length = PreSegments[j].length
                 /\ NowSegments[i].cls = PreSegments[j].cls
                 /\ last.op # "Inversion"
                      => Shape(NowSegments[i]) = Shape(PreSegments[j])

\* an inversion after which an instance it held before has the other
\* orientation
C24_InversionWitness ==
    /\ NeutralInversion /\ last.raised = "none"
    /\ \E i \in 1..Len(NowSegments), j \in 1..Len(PreSegments) :
          /\ SameInstance(i, j)
          /\ PreSegments[j].promoter_direction = FORWARD
          /\ NowSegments[i].promoter_direction = REVERSE

\* a segment extended by a new instance
C24_NewInstanceWitness ==
    /\ last.op = "extend_segment_at" /\ last.raised = "none"
    /\ NowLength > PreLength
    /\ Sids(NowSegments) # Sids(PreSegments)

(***************************************************************************)
(* C25.  Distinct Genome instances are independent: for two different      *)
(* Genome objects (built from the same list of Segment objects, from       *)
(* separate lists, or by deep copy), applying any operation or mutation to *)
(* one of them never changes the ordered (variant, orientation, length)    *)
(* sequence or the length observed through the other.                      *)
(***************************************************************************)
OtherSegments == [i \in 1..Len(other.segments) |-> other.segments[i].segment]

OtherAsGiven ==
    /\ Shapes(OtherSegments) = other.given
    /\ SumLen(OtherSegments) = SumLen(other.given)

C25_GenomesIndependent == OtherAsGiven

\* what the code does: genomes that share no Segment object are independent,
\* and through a shared object only the orientation changes, after Inversion
C25_UnlessSegmentsShared ==
    /\ (\A i \in 1..Len(other.segments) : ~other.segments[i].shared)
         => OtherAsGiven
    /\ last.op # "Inversion" => OtherAsGiven
    /\ SumLen(OtherSegments) = SumLen(other.given)

\* an inversion applied to the first genome that switched a promoter of the
\* second one, built from the same Segment objects
C25_SharedWitness ==
    /\ AppliedInversion /\ last.neutral = "True"
    /\ Len(other.segments) = 2
    /\ \E i \in 1..2 : /\ other.segments[i].shared
                       /\ other.given[i].promoter_direction = FORWARD
                       /\ OtherSegments[i].promoter_direction = REVERSE

\* a mutation applied to the first genome with a deep copy beside it
C25_DeepCopyWitness ==
    /\ AppliedInversion /\ last.neutral = "True"
    /\ Len(other.segments) = 2 /\ ~other.segments[1].shared
    /\ Shapes(NowSegments) # other.given
    /\ OtherAsGiven

(***************************************************************************)
(* C26.  A neutral mutation never disturbs coding content: for every       *)
(* operator, if is_neutral returned true and apply completed, no coding    *)
(* segment has been split, shortened, lengthened, removed or added (the    *)
(* multiset of coding segment lengths and the total coding length are      *)
(* unchanged), and for every operator except Inversion the ordered         *)
(* sequence of coding segments, orientations and identities included, is   *)
(* unchanged.                                                              *)
(***************************************************************************)
NeutralApplied ==
    /\ last.op \in MutationOps /\ OnSoundGenome
    /\ last.init = "none" /\ last.neutral = "True" /\ last.raised = "none"

\* how many coding segments of the list have length n
CodingOfLength(segments, n) ==
    Cardinality({i \in 1..Len(segments) :
                    ~IsNC(segments[i]) /\ segments[i].length = n})

C26_NeutralKeepsCoding ==
    NeutralApplied
      => /\ \A n \in 1..(PreLength + NowLength) :
               CodingOfLength(NowSegments, n) = CodingOfLength(PreSegments, n)
         /\ SumLen(CodingOnly(NowSegments)) = SumLen(CodingOnly(PreSegments))
         /\ last.op # "Inversion"
              => CodingOnly(NowSegments) = CodingOnly(PreSegments)

\* a neutral deletion next to a coding segment
C26_Witness ==
    /\ NeutralApplied /\ last.op = "Deletion"
    /\ NowLength < PreLength
    /\ CodingOnly(PreSegments) # <<>>

\* a neutral inversion of a range that holds a coding segment
C26_InversionWitness ==
    /\ NeutralApplied /\ last.op = "Inversion"
    /\ CodingWithin(PreSegments, Lo, Hi) # {}

\* a neutral small insertion into a genome that holds a coding segment
C26_SmallInsertionWitness ==
    /\ NeutralApplied /\ last.op = "SmallInsertion"
    /\ NowLength > PreLength
    /\ CodingOnly(PreSegments) # <<>>

(***************************************************************************)
(* C27.  MutationManager.apply_mutations_to_genome follows the             *)
(* check-then-apply protocol: a mutation is applied only after its         *)
(* is_neutral returned true, and each applied mutation is immediately      *)
(* followed by genome.coalesce_all(); at the first mutation that is        *)
(* non-neutral or whose is_neutral or apply raises, processing stops, that *)
(* mutation is counted as non-neutral and the result is survived = False;  *)
(* an empty genome (initially, or after a mutation emptied it) yields      *)
(* survived = False; survived = True is returned only if every drawn       *)
(* mutation was neutral and applied.                                       *)
(***************************************************************************)
CallsMade == manager.calls

\* the i-th call made is one at which processing stops
StopsAt(i) ==
    \/ CallsMade[i].call = "is_neutral" /\ CallsMade[i].outcome # "True"
    \/ CallsMade[i].call = "apply" /\ CallsMade[i].outcome # "none"

AppliedCount ==
    Cardinality({i \in 1..Len(CallsMade) : CallsMade[i] = CallMade("apply", "none")})

CheckThenApply ==
    /\ \A i \in 1..Len(CallsMade) :
          /\ CallsMade[i].call = "apply"
               => i > 1 /\ CallsMade[i - 1] = CallMade("is_neutral", "True")
          /\ CallsMade[i] = CallMade("apply", "none")
               => i < Len(CallsMade) /\ CallsMade[i + 1].call = "coalesce_all"
          /\ CallsMade[i].call = "coalesce_all"
               => i > 1 /\ CallsMade[i - 1] = CallMade("apply", "none")
          /\ StopsAt(i)
               => /\ i = Len(CallsMade)
                  /\ manager.pc = "returned" /\ manager.survived = FALSE
                  /\ manager.non_neutral_count = 1
    /\ (manager.pc = "returned" /\ manager.survived = TRUE)
         => /\ manager.neutral_count = manager.num_mutations
            /\ AppliedCount = manager.num_mutations
            /\ manager.non_neutral_count = 0
            /\ \A i \in 1..Len(CallsMade) : ~StopsAt(i)

EmptyGenomeDoesNotSurvive ==
    (/\ manager.pc = "returned"
     /\ manager.empty_at_entry \/ GenomeLength(root) = 0)
      => manager.survived = FALSE

C27_CheckThenApplyProtocol == CheckThenApply /\ EmptyGenomeDoesNotSurvive

\* what the code does: the genome is looked at on entry and at the top of
\* each iteration, not after the last one
C27_ExceptEmptiedByLastMutation ==
    /\ CheckThenApply
    /\ (manager.pc = "returned" /\ manager.empty_at_entry)
         => manager.survived = FALSE
    /\ (manager.pc = "returned" /\ GenomeLength(root) = 0
        /\ manager.survived = TRUE)
         => /\ manager.num_mutations > 0
            /\ manager.iterations = manager.num_mutations
            /\ last.op \in {"Deletion", "SmallDeletion"}

\* the last drawn mutation emptied the genome and survived = True came back
C27_EmptiedWitness ==
    /\ manager.pc = "returned" /\ manager.survived = TRUE
    /\ manager.num_mutations = 1 /\ last.op = "Deletion"
    /\ PreLength > 0 /\ GenomeLength(root) = 0

\* a mutation emptied the genome and the next iteration returned False
C27_EmptiedThenStoppedWitness ==
    /\ manager.pc = "returned" /\ manager.survived = FALSE
    /\ manager.num_mutations = 2 /\ manager.neutral_count = 1
    /\ manager.non_neutral_count = 0
    /\ GenomeLength(root) = 0

\* a neutral mutation applied, then one whose apply raised
C27_StoppedWitness ==
    /\ manager.pc = "returned" /\ manager.survived = FALSE
    /\ Len(CallsMade) = 5 /\ CallsMade[5] = CallMade("apply", "Exception")
    /\ manager.neutral_count = 1 /\ manager.non_neutral_count = 1

(***************************************************************************)
(* C28.  The treap heap property is preserved by the primitives: given     *)
(* heap-ordered inputs, the tree returned by merge and both trees returned *)
(* by split_by_pos have no child whose priority is smaller than its        *)
(* parent's, for every split position, positions strictly inside a segment *)
(* included, and therefore after any sequence of Genome operations.        *)
(***************************************************************************)
RECURSIVE HeapOrdered(_)
HeapOrdered(node) ==
    \/ node = None
    \/ /\ node.left # None => node.left.priority >= node.priority
       /\ node.right # None => node.right.priority >= node.priority
       /\ HeapOrdered(node.left)
       /\ HeapOrdered(node.right)

C28_HeapPropertyPreserved ==
    (last.op # "Genome" /\ HeapOrdered(pre))
      => /\ HeapOrdered(root)
         /\ (last.op = "split_by_pos" /\ last.raised = "none")
              => HeapOrdered(last.ret.left) /\ HeapOrdered(last.ret.right)

\* what the code does: the heap property is kept by merge, and by
\* split_by_pos at the positions that lie between two segments
C28_ExceptCutsInsideSegment ==
    (last.op # "Genome" /\ HeapOrdered(pre))
      => /\ last.op = "coalesce_all" => HeapOrdered(root)
         /\ (/\ last.op = "split_by_pos" /\ last.raised = "none"
             /\ ~CutsInside(pre, last.a))
              => /\ HeapOrdered(last.ret.left) /\ HeapOrdered(last.ret.right)
                 /\ HeapOrdered(root)

\* a split strictly inside a segment that returned a tree in which a new
\* node lies under a node of larger priority
C28_CutWitness ==
    /\ last.op = "split_by_pos" /\ last.raised = "none"
    /\ HeapOrdered(pre) /\ CutsInside(pre, last.a)
    /\ HeapOrdered(last.ret.left) /\ ~HeapOrdered(last.ret.right)

\* a split between two segments of a tree of three nodes, and the merge of
\* its two trees
C28_BoundaryWitness ==
    /\ last.op = "split_by_pos" /\ last.raised = "none"
    /\ HeapOrdered(pre) /\ ~CutsInside(pre, last.a)
    /\ NodeCount(pre) = 3 /\ NodeCount(last.ret.left) = 2
    /\ pre.priority = 0
    /\ last.ret.left.priority = 1

(***************************************************************************)
(* C29.  is_neutral is a sufficient guard for apply: for every operator    *)
(* and every genome, linear or circular, if is_neutral(genome) returns     *)
(* true then apply(genome) called next on the same genome completes        *)
(* without raising.                                                        *)
(***************************************************************************)
FoundNeutral ==
    /\ last.op \in MutationOps /\ OnSoundGenome
    /\ last.init = "none" /\ last.neutral = "True"

C29_NeutralThenApplyCompletes == FoundNeutral => last.raised = "none"

\* the coordinates name existing bases and gaps, in order; a Deletion may
\* wrap on a circular genome
ExistingCoordinates ==
    CASE last.op = "PointMutation" -> InRange(last.a)
      [] last.op = "SmallInsertion" -> 0 <= last.a /\ last.a <= PreLength
      [] last.op = "SmallDeletion" -> 0 <= last.a /\ last.a + last.b <= PreLength
      [] last.op = "Deletion" ->
            /\ InRange(last.a) /\ InRange(last.b)
            /\ last.a > last.b => circular
      [] last.op = "Duplication" ->
            /\ InRange(last.a) /\ InRange(last.b) /\ last.a <= last.b
            /\ 0 <= last.c /\ last.c <= PreLength
      [] last.op = "Inversion" -> last.a <= PreLength /\ last.b <= PreLength
      [] OTHER -> FALSE

\* what the code does: the guard is sufficient for coordinates that exist
C29_ForExistingCoordinates ==
    (FoundNeutral /\ ExistingCoordinates) => last.raised = "none"

\* a Deletion with start > end found neutral on a linear genome, whose apply
\* raised
C29_LinearWrapWitness ==
    /\ FoundNeutral /\ last.op = "Deletion"
    /\ ~circular /\ InRange(last.a) /\ InRange(last.b) /\ last.a > last.b + 1
    /\ last.raised = "ValueError" /\ root = pre

\* a SmallDeletion reaching one base past the end, found neutral, whose apply
\* raised
C29_PastTheEndWitness ==
    /\ FoundNeutral /\ last.op = "SmallDeletion"
    /\ last.a + last.b = PreLength + 1
    /\ last.raised = "IndexError"


(***************************************************************************)
(* C30: Inversion is an involution up to coalescing.  For an                *)
(* Inversion(start, end) that is neutral on the genome, is_neutral answers  *)
(* True again after one apply, and after a second apply followed by         *)
(* coalesce_all() the genome lists the same (class, promoter_direction,     *)
(* length) sequence as coalesce_all() makes of the genome before the first  *)
(* apply.                                                                   *)
(***************************************************************************)
TwiceOverNeutral ==
    /\ last.op = "Inversion.apply, Inversion.apply, coalesce_all"
    /\ OnSoundGenome
    /\ last.init = "none"
    /\ last.neutral = "True"

C30_InversionInvolution ==
    TwiceOverNeutral =>
        /\ last.raised = "none"
        /\ last.ret.neutral_again = "True"
        /\ Shapes(NowSegments) = last.ret.coalesced_before

\* a neutral inversion over a CodingSegment and something else
C30_Witness ==
    /\ TwiceOverNeutral
    /\ last.raised = "none"
    /\ CodingWithin(to_list(pre), Lo, Hi) # {}
    /\ Hi - Lo < GenomeLength(pre)
    /\ \E i \in 1..Len(to_list(pre)) : to_list(pre)[i].cls = "NonCodingSegment"

\* a neutral inversion that cuts a NonCodingSegment, which coalesce_all heals
C30_CutWitness ==
    /\ TwiceOverNeutral
    /\ last.raised = "none"
    /\ CutsInside(pre, Lo)
    /\ Len(NowSegments) = Len(to_list(pre))

=============================================================================
